---- MODULE Spec2Model ----
(***************************************************************************)
(* A model of the sitemap utilities of src/src/lib/sitemap.ts, of the      *)
(* sitemap page routines that call them, and of the schema.org generators  *)
(* of src/src/lib/schemas.ts and src/unnamed/part_003.                     *)
(*                                                                         *)
(* The utilities and the generators' methods are pure functions.  Each one *)
(* is an operator that computes what the TypeScript computes, and each has *)
(* a Call... action that applies it to the arguments the caller chose:     *)
(* `op` is the function called, `arg` its arguments, `ret` what it         *)
(* returned or that it threw, `pc` whether the call has been made, and     *)
(* `generator` the generator instance the method is called on.  There is   *)
(* one specification per component: Spec (the utilities), PagesSpec (the   *)
(* page routines), SchemaSpec (one call of a schema generator), SharedSpec *)
(* (several callers of one schema generator) and ContentTypeSpec (the      *)
(* page-level generator).                                                  *)
(*                                                                         *)
(* Two components keep state between calls, which the components above     *)
(* leave alone.  PreviewSpec is the preview endpoint: `cookies` is the     *)
(* cookie jar its handlers read and write, and `activation` records which  *)
(* content the last accepted activation was for, if no deactivation has    *)
(* been answered since.  MockSpec is the mock content service: `mocks` is  *)
(* the arrays its module exports.                                          *)
(***************************************************************************)
EXTENDS Integers, Sequences, FiniteSets, TLC

VARIABLES op, arg, ret, pc, generator, cookies, mocks, activation

vars == <<op, arg, ret, pc, generator, cookies, mocks, activation>>

(***************************************************************************)
(* Bounds of the model.                                                    *)
(***************************************************************************)
\* longest tail (over the alphabet "/", "a") appended to a url or base prefix
MaxTail == 3
\* longest list of entries given to generateSitemapXml / generateSitemapIndexXml
MaxEntries == 2
\* longest run of characters drawn from the XML alphabet in an entry's url
MaxXmlTail == 1
\* deepest path (in segments) of the urls given to shouldIncludeInSitemap
MaxSegments == 2
\* most records the content service returns to a sitemap page routine
MaxRecords == 2
\* most steps of a guide
MaxSteps == 2
\* longest breadcrumb trail, and longest list of FAQ entries
MaxCrumbs == 2
\* callers that share one schema generator
NumCallers == 2
\* longest tail of a slug given to validateAndFormatSlug
MaxSlugTail == 3

(***************************************************************************)
(* JavaScript string primitives, on TLA+ strings.                          *)
(***************************************************************************)
\* s[i], 1-based; "" outside the string
CharAt(s, i) == IF i >= 1 /\ i <= Len(s) THEN SubSeq(s, i, i) ELSE ""

\* String.prototype.slice(from) with a 0-based, non-negative from
SliceFrom(s, from) == SubSeq(s, from + 1, Len(s))

\* String.prototype.slice(0, -n)
SliceDropLast(s, n) == SubSeq(s, 1, Len(s) - n)

\* String.prototype.startsWith
StartsWith(s, p) == Len(p) <= Len(s) /\ SubSeq(s, 1, Len(p)) = p

\* String.prototype.endsWith
EndsWith(s, p) == Len(p) <= Len(s) /\ SubSeq(s, Len(s) - Len(p) + 1, Len(s)) = p

\* whether p occurs in s at the 1-based position i
OccursAt(s, p, i) == i >= 1 /\ i + Len(p) - 1 <= Len(s) /\ SubSeq(s, i, i + Len(p) - 1) = p

\* String.prototype.includes
Includes(s, p) == \E i \in 1..(Len(s) + 1) : OccursAt(s, p, i)

\* the 1-based position of the first occurrence of p in s at or after i; 0 if none
IndexOfFrom(s, p, i) ==
  LET hits == {k \in i..(Len(s) - Len(p) + 1) : OccursAt(s, p, k)}
  IN  IF hits = {} THEN 0 ELSE CHOOSE k \in hits : \A j \in hits : k <= j

IndexOf(s, p) == IndexOfFrom(s, p, 1)

\* String.prototype.replace(/c/g, r) for a one-character pattern c: every
\* occurrence is replaced, left to right, and a replacement is not rescanned
RECURSIVE ReplaceAll(_, _, _)
ReplaceAll(s, c, r) ==
  IF s = "" THEN ""
  ELSE (IF Head(s) = c THEN r ELSE Head(s)) \o ReplaceAll(Tail(s), c, r)

\* the strings of exactly n characters over the alphabet A
RECURSIVE StrsOfLen(_, _)
StrsOfLen(A, n) ==
  IF n = 0 THEN {""} ELSE {s \o c : s \in StrsOfLen(A, n - 1), c \in A}

\* the strings of at most n characters over the alphabet A
StrsUpTo(A, n) == UNION {StrsOfLen(A, k) : k \in 0..n}

(***************************************************************************)
(* formatSitemapUrl                                                        *)
(***************************************************************************)
\* Mutants of formatSitemapUrl: the absolute-url test looks for https:// only,
\* the test is missing, the leading slash of the url is kept.
formatSitemapUrl_HttpsOnly(url, baseUrl) ==
  IF StartsWith(url, "https://")
  THEN url
  ELSE LET cleanUrl == IF StartsWith(url, "/") THEN SliceFrom(url, 1) ELSE url
           cleanBaseUrl == IF EndsWith(baseUrl, "/") THEN SliceDropLast(baseUrl, 1) ELSE baseUrl
       IN  cleanBaseUrl \o "/" \o cleanUrl

formatSitemapUrl_AlwaysJoin(url, baseUrl) ==
  LET cleanUrl == IF StartsWith(url, "/") THEN SliceFrom(url, 1) ELSE url
      cleanBaseUrl == IF EndsWith(baseUrl, "/") THEN SliceDropLast(baseUrl, 1) ELSE baseUrl
  IN  cleanBaseUrl \o "/" \o cleanUrl

formatSitemapUrl_KeepSlash(url, baseUrl) ==
  IF StartsWith(url, "http://") \/ StartsWith(url, "https://")
  THEN url
  ELSE LET cleanBaseUrl == IF EndsWith(baseUrl, "/") THEN SliceDropLast(baseUrl, 1) ELSE baseUrl
       IN  cleanBaseUrl \o "/" \o url

formatSitemapUrl(url, baseUrl) ==
  IF StartsWith(url, "http://") \/ StartsWith(url, "https://")
  THEN url
  ELSE LET cleanUrl == IF StartsWith(url, "/") THEN SliceFrom(url, 1) ELSE url
           cleanBaseUrl == IF EndsWith(baseUrl, "/") THEN SliceDropLast(baseUrl, 1) ELSE baseUrl
       IN  cleanBaseUrl \o "/" \o cleanUrl

\* the urls and bases formatSitemapUrl is called with
UrlPrefixes == {"", "http://", "https://", "http:/", "HTTP://"}
UrlInputs == {p \o t : p \in UrlPrefixes, t \in StrsUpTo({"/", "a"}, MaxTail)}
BasePrefixes == {"https://e.com", "http://e.com", "http://localhost:4321", "e.com", "HTTPS://E.COM"}
BaseInputs == {p \o t : p \in BasePrefixes, t \in StrsUpTo({"/", "a"}, MaxTail)}

FormatArgs == [url : UrlInputs, baseUrl : BaseInputs]

CallFormatSitemapUrl ==
  /\ pc = "ready"
  /\ op = "formatSitemapUrl"
  /\ ret' = [threw |-> FALSE, value |-> formatSitemapUrl(arg.url, arg.baseUrl)]
  /\ pc' = "done"
  /\ UNCHANGED <<op, arg, generator, cookies, mocks, activation>>

(***************************************************************************)
(* escapeXml and the entry and document generators                         *)
(***************************************************************************)
\* Mutant of escapeXml: the ampersand is replaced last, so the ampersands of the
\* entities written before it are escaped again.
escapeXml_AmpersandLast(text) ==
  ReplaceAll(ReplaceAll(ReplaceAll(ReplaceAll(ReplaceAll(text,
    "<", "&lt;"), ">", "&gt;"), "\"", "&quot;"), "'", "&apos;"), "&", "&amp;")

escapeXml(text) ==
  ReplaceAll(ReplaceAll(ReplaceAll(ReplaceAll(ReplaceAll(text,
    "&", "&amp;"), "<", "&lt;"), ">", "&gt;"), "\"", "&quot;"), "'", "&apos;")

\* An entry (SitemapEntry, SitemapIndex) is a function from the names of the
\* fields it has to their values: an optional field that is absent is not in
\* its domain, and reading it gives JavaScript's undefined.
Has(entry, field) == field \in DOMAIN entry

\* if (entry.field) for a string field: undefined and "" are falsy
TruthyStr(entry, field) == Has(entry, field) /\ entry[field] # ""

\* the decimal digit d as a character
DigitChar(d) == SubSeq("0123456789", d + 1, d + 1)

\* Number.prototype.toFixed(1) of a priority given in tenths (8 is 0.8)
toFixed1(tenths) == DigitChar(tenths \div 10) \o "." \o DigitChar(tenths % 10)

\* Mutant of generateSitemapEntry: priority is tested for truthiness, like the
\* string fields, so a priority of 0 is dropped.
generateSitemapEntry_TruthyPriority(entry) ==
  "  <url>\n"
  \o "    <loc>" \o escapeXml(entry.url) \o "</loc>\n"
  \o (IF TruthyStr(entry, "lastmod")
      THEN "    <lastmod>" \o escapeXml(entry.lastmod) \o "</lastmod>\n" ELSE "")
  \o (IF TruthyStr(entry, "changefreq")
      THEN "    <changefreq>" \o escapeXml(entry.changefreq) \o "</changefreq>\n" ELSE "")
  \o (IF Has(entry, "priority") /\ entry.priority # 0
      THEN "    <priority>" \o toFixed1(entry.priority) \o "</priority>\n" ELSE "")
  \o "  </url>\n"

generateSitemapEntry(entry) ==
  "  <url>\n"
  \o "    <loc>" \o escapeXml(entry.url) \o "</loc>\n"
  \o (IF TruthyStr(entry, "lastmod")
      THEN "    <lastmod>" \o escapeXml(entry.lastmod) \o "</lastmod>\n" ELSE "")
  \o (IF TruthyStr(entry, "changefreq")
      THEN "    <changefreq>" \o escapeXml(entry.changefreq) \o "</changefreq>\n" ELSE "")
  \o (IF Has(entry, "priority")
      THEN "    <priority>" \o toFixed1(entry.priority) \o "</priority>\n" ELSE "")
  \o "  </url>\n"

\* Mutant of generateSitemapIndexEntry: the location is written without escaping.
generateSitemapIndexEntry_RawLoc(entry) ==
  "  <sitemap>\n"
  \o "    <loc>" \o entry.sitemap \o "</loc>\n"
  \o (IF TruthyStr(entry, "lastmod")
      THEN "    <lastmod>" \o escapeXml(entry.lastmod) \o "</lastmod>\n" ELSE "")
  \o "  </sitemap>\n"

generateSitemapIndexEntry(entry) ==
  "  <sitemap>\n"
  \o "    <loc>" \o escapeXml(entry.sitemap) \o "</loc>\n"
  \o (IF TruthyStr(entry, "lastmod")
      THEN "    <lastmod>" \o escapeXml(entry.lastmod) \o "</lastmod>\n" ELSE "")
  \o "  </sitemap>\n"

\* the for-of loop of the two document generators: the entries' fragments, in order
RECURSIVE ConcatEntries(_, _)
ConcatEntries(entries, i) ==
  IF i > Len(entries) THEN ""
  ELSE generateSitemapEntry(entries[i]) \o ConcatEntries(entries, i + 1)

RECURSIVE ConcatIndexEntries(_, _)
ConcatIndexEntries(entries, i) ==
  IF i > Len(entries) THEN ""
  ELSE generateSitemapIndexEntry(entries[i]) \o ConcatIndexEntries(entries, i + 1)

XmlDeclaration == "<?xml version=\"1.0\" encoding=\"UTF-8\"?>\n"

\* Mutant of generateSitemapXml: nothing is written for an empty list.
generateSitemapXml_NothingForNoEntries(entries) ==
  IF Len(entries) = 0 THEN ""
  ELSE XmlDeclaration
       \o "<urlset xmlns=\"http://www.sitemaps.org/schemas/sitemap/0.9\">\n"
       \o ConcatEntries(entries, 1)
       \o "</urlset>\n"

generateSitemapXml(entries) ==
  XmlDeclaration
  \o "<urlset xmlns=\"http://www.sitemaps.org/schemas/sitemap/0.9\">\n"
  \o ConcatEntries(entries, 1)
  \o "</urlset>\n"

generateSitemapIndexXml(entries) ==
  XmlDeclaration
  \o "<sitemapindex xmlns=\"http://www.sitemaps.org/schemas/sitemap/0.9\">\n"
  \o ConcatIndexEntries(entries, 1)
  \o "</sitemapindex>\n"

\* the function with no field: the optional fields of an entry that has none
NoFields == [f \in {} |-> ""]

\* the characters escapeXml rewrites, and some it must leave alone
XmlAlphabet == {"&", "<", ">", "\"", "'", ";", "a"}

\* urls of entries: plain, with each run of special characters, and with text
\* that already looks like an entity or like markup
EntryUrls ==
  {"https://e.com/p" \o t : t \in StrsUpTo(XmlAlphabet, MaxXmlTail)}
  \cup {"https://e.com/?a=1&amp;b=2", "https://e.com/</loc><loc>", "https://e.com/&lt;url&gt;"}

LastmodInputs == {"", "2024-01-15T10:00:00.000Z", "<2024>&'\""}
ChangefreqInputs == {"weekly", "never"}
\* priorities in tenths: 0.0, 0.8, 1.0
PriorityInputs == {0, 8, 10}

OptionalField(name, values) == {NoFields} \cup {[f \in {name} |-> v] : v \in values}

SitemapEntries ==
  {[f \in {"url"} |-> u] @@ l @@ c @@ p :
     u \in EntryUrls,
     l \in OptionalField("lastmod", LastmodInputs),
     c \in OptionalField("changefreq", ChangefreqInputs),
     p \in OptionalField("priority", PriorityInputs)}

SitemapIndexEntries ==
  {[f \in {"sitemap"} |-> u] @@ l :
     u \in EntryUrls, l \in OptionalField("lastmod", LastmodInputs)}

\* the entries of the lists given to the document generators
DocUrls == {"https://e.com/a", "https://e.com/b?x=1&y=<2>", "https://e.com/'\"&amp;",
            "https://e.com/<url><loc>"}
DocEntries ==
  {[f \in {"url"} |-> u] @@ l :
     u \in DocUrls, l \in OptionalField("lastmod", {"2024-01-15T10:00:00.000Z"})}
DocIndexEntries ==
  {[f \in {"sitemap"} |-> u] @@ l :
     u \in DocUrls, l \in OptionalField("lastmod", {"", "&<"})}

\* the lists of at most n elements of S
ListsUpTo(S, n) == UNION {[1..k -> S] : k \in 0..n}

CallGenerateSitemapEntry ==
  /\ pc = "ready"
  /\ op = "generateSitemapEntry"
  /\ ret' = [threw |-> FALSE, value |-> generateSitemapEntry(arg.entry)]
  /\ pc' = "done"
  /\ UNCHANGED <<op, arg, generator, cookies, mocks, activation>>

CallGenerateSitemapIndexEntry ==
  /\ pc = "ready"
  /\ op = "generateSitemapIndexEntry"
  /\ ret' = [threw |-> FALSE, value |-> generateSitemapIndexEntry(arg.entry)]
  /\ pc' = "done"
  /\ UNCHANGED <<op, arg, generator, cookies, mocks, activation>>

CallGenerateSitemapXml ==
  /\ pc = "ready"
  /\ op = "generateSitemapXml"
  /\ ret' = [threw |-> FALSE, value |-> generateSitemapXml(arg.entries)]
  /\ pc' = "done"
  /\ UNCHANGED <<op, arg, generator, cookies, mocks, activation>>

CallGenerateSitemapIndexXml ==
  /\ pc = "ready"
  /\ op = "generateSitemapIndexXml"
  /\ ret' = [threw |-> FALSE, value |-> generateSitemapIndexXml(arg.entries)]
  /\ pc' = "done"
  /\ UNCHANGED <<op, arg, generator, cookies, mocks, activation>>

(***************************************************************************)
(* validateSitemapUrl.  `new URL(url)` is the WHATWG URL parser called     *)
(* without a base; what is modelled of it is what decides whether it       *)
(* throws and which protocol it reports, for ASCII input without           *)
(* credentials, IPv6 or numeric hosts.                                     *)
(***************************************************************************)
UpperAlpha == "ABCDEFGHIJKLMNOPQRSTUVWXYZ"
LowerAlpha == "abcdefghijklmnopqrstuvwxyz"
DecimalDigits == "0123456789"

IsAlpha(c) == Len(c) = 1 /\ (Includes(UpperAlpha, c) \/ Includes(LowerAlpha, c))
IsDigit(c) == Len(c) = 1 /\ Includes(DecimalDigits, c)

\* ASCII lowercase of one character
LowerChar(c) ==
  IF Len(c) = 1 /\ Includes(UpperAlpha, c)
  THEN CharAt(LowerAlpha, IndexOf(UpperAlpha, c))
  ELSE c

RECURSIVE ToLowerCase(_)
ToLowerCase(s) == IF s = "" THEN "" ELSE LowerChar(Head(s)) \o ToLowerCase(Tail(s))

\* the characters of s
Chars(s) == {CharAt(s, i) : i \in 1..Len(s)}

\* the parser first strips leading and trailing C0 control characters and spaces
RECURSIVE TrimLeft(_)
TrimLeft(s) == IF s # "" /\ Head(s) = " " THEN TrimLeft(Tail(s)) ELSE s

RECURSIVE TrimRight(_)
TrimRight(s) == IF s # "" /\ EndsWith(s, " ") THEN TrimRight(SliceDropLast(s, 1)) ELSE s

\* special authority (ignore) slashes state: every leading / and \ is skipped
RECURSIVE SkipSlashes(_)
SkipSlashes(s) ==
  IF s # "" /\ Head(s) \in {"/", "\\"} THEN SkipSlashes(Tail(s)) ELSE s

\* the prefix of s before the first character that is in the set `stops`
RECURSIVE TakeUntil(_, _)
TakeUntil(s, stops) ==
  IF s = "" \/ Head(s) \in stops THEN "" ELSE Head(s) \o TakeUntil(Tail(s), stops)

IsSchemeChar(c) == IsAlpha(c) \/ IsDigit(c) \/ c \in {"+", "-", "."}

SpecialSchemes == {"http", "https", "ftp", "ws", "wss", "file"}

\* forbidden host code points, of those that are not delimiters already and
\* without "%" and "@" (percent-decoding and credentials are not modelled)
ForbiddenHostChars == {" ", "<", ">", "[", "]", "^", "|"}

IsHostChar(c) == c \notin ForbiddenHostChars

\* the decimal value of a string of digits
RECURSIVE DigitsValue(_, _)
DigitsValue(s, acc) ==
  IF s = "" THEN acc
  ELSE DigitsValue(Tail(s), acc * 10 + (IndexOf(DecimalDigits, Head(s)) - 1))

\* host and port of an authority: the host is not empty unless allowed, holds
\* no forbidden code point, and the port is a number of at most 16 bits
AuthorityOk(authority, emptyHostOk) ==
  LET host == TakeUntil(authority, {":"})
      port == IF Len(host) < Len(authority) THEN SliceFrom(authority, Len(host) + 1) ELSE ""
  IN  /\ emptyHostOk \/ host # ""
      /\ \A c \in Chars(host) : IsHostChar(c)
      /\ \A c \in Chars(port) : IsDigit(c)
      /\ Len(port) <= 5
      /\ DigitsValue(port, 0) <= 65535

\* new URL(input): ok is FALSE where the constructor throws TypeError
ParseUrl(input) ==
  LET s == TrimRight(TrimLeft(input))
      colon == IndexOf(s, ":")
      scheme == IF colon = 0 THEN "" ELSE SubSeq(s, 1, colon - 1)
      rest == SliceFrom(s, colon)
      lower == ToLowerCase(scheme)
      failure == [ok |-> FALSE, protocol |-> ""]
      success == [ok |-> TRUE, protocol |-> lower \o ":"]
  IN  IF colon = 0 \/ scheme = "" \/ ~IsAlpha(Head(scheme)) \/ ~(\A c \in Chars(scheme) : IsSchemeChar(c))
      THEN failure  \* no scheme, and no base to resolve against
      ELSE IF lower = "file" THEN success
      ELSE IF lower \in SpecialSchemes
      THEN IF AuthorityOk(TakeUntil(SkipSlashes(rest), {"/", "\\", "?", "#"}), FALSE)
           THEN success ELSE failure
      ELSE IF StartsWith(rest, "//")
      THEN IF AuthorityOk(TakeUntil(SliceFrom(rest, 2), {"/", "?", "#"}), TRUE)
           THEN success ELSE failure
      ELSE success  \* an opaque path

\* Mutant of validateSitemapUrl: the parser's TypeError is not caught.
validateSitemapUrl_Uncaught(url) ==
  LET urlObj == ParseUrl(url)
  IN  IF urlObj.ok
      THEN [threw |-> FALSE, value |-> urlObj.protocol = "http:" \/ urlObj.protocol = "https:"]
      ELSE [threw |-> TRUE, value |-> "TypeError: Invalid URL"]

\* the try block and its catch-all: [threw, value]
validateSitemapUrl(url) ==
  LET urlObj == ParseUrl(url)
  IN  IF urlObj.ok
      THEN [threw |-> FALSE, value |-> urlObj.protocol = "http:" \/ urlObj.protocol = "https:"]
      ELSE [threw |-> FALSE, value |-> FALSE]

ValidateSchemes == {"", "http", "https", "HTTP", "Https", "ftp", "htt", "httpss", "1http",
                    "mailto", "ws", "h ttp", " https"}
ValidateSeparators == {"", ":", ":/", "://", ":///", "/"}
ValidateRests == {"", "example.com", "example.com/page", "x y", "x/a b", "x:80", "x:80a",
                  "x:65536", "x?q=1", "x<y", "x ", "/x"}
ValidateInputs ==
  {sch \o sep \o r : sch \in ValidateSchemes, sep \in ValidateSeparators, r \in ValidateRests}
  \cup {"not-a-url", "ftp://example.com", "https://example.com/page", "http://example.com/page"}

CallValidateSitemapUrl ==
  /\ pc = "ready"
  /\ op = "validateSitemapUrl"
  /\ ret' = validateSitemapUrl(arg.url)
  /\ pc' = "done"
  /\ UNCHANGED <<op, arg, generator, cookies, mocks, activation>>

(***************************************************************************)
(* formatSitemapTimestamp.  A Date is its time value: NaN (an invalid      *)
(* Date) or a day since 1970-01-01 UTC and a millisecond within that day   *)
(* (Day(t) and TimeWithinDay(t) of ECMAScript).  `new Date(string)` is     *)
(* modelled for the ECMAScript date-time string format in UTC,             *)
(* YYYY-MM-DD and YYYY-MM-DDTHH:mm:ss[.sss]Z; any other string is an       *)
(* invalid Date.                                                           *)
(***************************************************************************)
InvalidDate == [nan |-> TRUE, day |-> 0, msInDay |-> 0]

MakeDate(day, msInDay) == [nan |-> FALSE, day |-> day, msInDay |-> msInDay]

\* the value of a string of decimal digits, -1 if it is empty or has another character
ParseDigits(s) == IF s # "" /\ (\A c \in Chars(s) : IsDigit(c)) THEN DigitsValue(s, 0) ELSE -1

IsLeapYear(y) == (y % 4 = 0 /\ y % 100 # 0) \/ y % 400 = 0

DaysInMonth(y, m) ==
  IF m = 2 THEN (IF IsLeapYear(y) THEN 29 ELSE 28)
  ELSE IF m \in {4, 6, 9, 11} THEN 30 ELSE 31

\* MakeDay: the day number of a civil date (years from 1970 on)
DaysFromCivil(y, m, d) ==
  LET yy == IF m <= 2 THEN y - 1 ELSE y
      era == yy \div 400
      yoe == yy - era * 400
      mp == IF m > 2 THEN m - 3 ELSE m + 9
      doy == (153 * mp + 2) \div 5 + d - 1
      doe == yoe * 365 + yoe \div 4 - yoe \div 100 + doy
  IN  era * 146097 + doe - 719468

\* YearFromTime, MonthFromTime, DateFromTime: the civil date of a day number
CivilFromDays(day) ==
  LET z == day + 719468
      era == z \div 146097
      doe == z - era * 146097
      yoe == (doe - doe \div 1460 + doe \div 36524 - doe \div 146096) \div 365
      doy == doe - (365 * yoe + yoe \div 4 - yoe \div 100)
      mp == (5 * doy + 2) \div 153
      d == doy - (153 * mp + 2) \div 5 + 1
      m == IF mp < 10 THEN mp + 3 ELSE mp - 9
  IN  [year |-> yoe + era * 400 + (IF m <= 2 THEN 1 ELSE 0), month |-> m, date |-> d]

\* Date.parse
DateParse(s) ==
  LET y == ParseDigits(SubSeq(s, 1, 4))
      m == ParseDigits(SubSeq(s, 6, 7))
      d == ParseDigits(SubSeq(s, 9, 10))
      hh == ParseDigits(SubSeq(s, 12, 13))
      mi == ParseDigits(SubSeq(s, 15, 16))
      ss == ParseDigits(SubSeq(s, 18, 19))
      ms == IF Len(s) = 24 THEN ParseDigits(SubSeq(s, 21, 23)) ELSE 0
      dateOk == /\ Len(s) >= 10
                /\ CharAt(s, 5) = "-" /\ CharAt(s, 8) = "-"
                /\ y >= 1970 /\ m >= 1 /\ m <= 12 /\ d >= 1 /\ d <= DaysInMonth(y, m)
      timeOk == /\ CharAt(s, 11) = "T" /\ CharAt(s, 14) = ":" /\ CharAt(s, 17) = ":"
                /\ hh >= 0 /\ hh <= 23 /\ mi >= 0 /\ mi <= 59 /\ ss >= 0 /\ ss <= 59
                /\ \/ Len(s) = 20 /\ CharAt(s, 20) = "Z"
                   \/ Len(s) = 24 /\ CharAt(s, 20) = "." /\ ms >= 0 /\ CharAt(s, 24) = "Z"
  IN  IF Len(s) = 10 /\ dateOk THEN MakeDate(DaysFromCivil(y, m, d), 0)
      ELSE IF Len(s) \in {20, 24} /\ dateOk /\ timeOk
      THEN MakeDate(DaysFromCivil(y, m, d), ((hh * 60 + mi) * 60 + ss) * 1000 + ms)
      ELSE InvalidDate

\* n in decimal, padded with zeros to `width` digits
RECURSIVE Pad(_, _)
Pad(n, width) == IF width = 0 THEN "" ELSE Pad(n \div 10, width - 1) \o DigitChar(n % 10)

\* Date.prototype.toISOString of a valid Date
toISOString(date) ==
  LET c == CivilFromDays(date.day)
      t == date.msInDay
  IN  Pad(c.year, 4) \o "-" \o Pad(c.month, 2) \o "-" \o Pad(c.date, 2) \o "T"
      \o Pad(t \div 3600000, 2) \o ":" \o Pad((t \div 60000) % 60, 2) \o ":"
      \o Pad((t \div 1000) % 60, 2) \o "." \o Pad(t % 1000, 3) \o "Z"

\* Mutant of formatSitemapTimestamp: the validity check is missing, and an
\* invalid Date is formatted as the epoch.
formatSitemapTimestamp_Fallback(timestamp) ==
  LET date == IF timestamp.isString THEN DateParse(timestamp.str) ELSE timestamp.date
  IN  [threw |-> FALSE, value |-> toISOString(date)]

\* a timestamp argument is [isString |-> TRUE, str |-> s] or [isString |-> FALSE, date |-> d]
formatSitemapTimestamp(timestamp) ==
  LET date == IF timestamp.isString THEN DateParse(timestamp.str) ELSE timestamp.date
  IN  IF date.nan
      THEN [threw |-> TRUE,
            value |-> "Invalid timestamp: "
                      \o (IF timestamp.isString THEN timestamp.str ELSE "Invalid Date")]
      ELSE [threw |-> FALSE, value |-> toISOString(date)]

TimestampYears == {"1970", "2023", "2024", "20x4"}
TimestampMonths == {"00", "01", "02", "12", "13"}
TimestampDays == {"00", "01", "15", "28", "32"}
TimestampTimes == {"", "T10:00:00Z", "T10:00:00.000Z", "T23:59:59.999Z", "T00:00:00.001Z",
                   "T25:00:00Z", "T10:60:00Z", "T10:00:00", "Z"}
TimestampStrings ==
  {y \o "-" \o m \o "-" \o d \o t :
     y \in TimestampYears, m \in TimestampMonths, d \in TimestampDays, t \in TimestampTimes}
  \cup {"invalid-date", "", "2024-02-29", "2024-02-29T12:30:45.678Z", "2024-12-31T23:59:59.999Z",
        "2024/01/15", "20240115000"}
TimestampDates ==
  {InvalidDate} \cup {MakeDate(d, t) : d \in {0, 59, 19737, 19782, 20088},
                                       t \in {0, 1, 36000000, 86399999}}
TimestampInputs ==
  {[isString |-> TRUE, str |-> s] : s \in TimestampStrings}
  \cup {[isString |-> FALSE, date |-> d] : d \in TimestampDates}

CallFormatSitemapTimestamp ==
  /\ pc = "ready"
  /\ op = "formatSitemapTimestamp"
  /\ ret' = formatSitemapTimestamp(arg.timestamp)
  /\ pc' = "done"
  /\ UNCHANGED <<op, arg, generator, cookies, mocks, activation>>

(***************************************************************************)
(* shouldIncludeInSitemap                                                  *)
(***************************************************************************)
excludePatterns == {"/preview/", "/search", "/api/", "/_", "/admin"}

shouldIncludeInSitemap(url) == ~(\E pattern \in excludePatterns : Includes(url, pattern))

\* the urls the sitemap pages build: an origin, a path of segments and a query
IncludeOrigins == {"https://x", "http://localhost:4321", "https://admin.example.com",
                   "https://search.example.com", "https://api.example.com"}
PathSegments == {"blog", "preview", "search", "api", "_astro", "admin", "a_b", "d"}
RECURSIVE PathsOfDepth(_)
PathsOfDepth(n) ==
  IF n = 0 THEN {""} ELSE {p \o "/" \o seg : p \in PathsOfDepth(n - 1), seg \in PathSegments}
IncludePaths ==
  {"/"} \cup UNION {{p, p \o "/"} : p \in UNION {PathsOfDepth(k) : k \in 1..MaxSegments}}
IncludeQueries == {"", "?q=1", "?next=/api/x"}
IncludeInputs == {o \o p \o q : o \in IncludeOrigins, p \in IncludePaths, q \in IncludeQueries}

CallShouldIncludeInSitemap ==
  /\ pc = "ready"
  /\ op = "shouldIncludeInSitemap"
  /\ ret' = [threw |-> FALSE, value |-> shouldIncludeInSitemap(arg.url)]
  /\ pc' = "done"
  /\ UNCHANGED <<op, arg, generator, cookies, mocks, activation>>

(***************************************************************************)
(* The sitemap page routines: GET of sitemap-pages.xml, sitemap-blog.xml   *)
(* and sitemap-guides.xml.  Each reads the base url from the environment,  *)
(* fetches records from the content service inside a try block, and        *)
(* answers with a Response; what the try block throws is caught and        *)
(* answered with a fallback document.  The outcome of the content fetch    *)
(* (the records, or a thrown error) is an input of the routine.            *)
(***************************************************************************)

\* Mutant of getSitemapBaseUrl: an empty SITE_URL is returned as it is.
getSitemapBaseUrl_EmptyIsConfigured(env) ==
  IF Has(env, "SITE_URL") THEN env.SITE_URL ELSE "http://localhost:4321"

\* process.env.SITE_URL if it is set and non-empty, else the development url
getSitemapBaseUrl(env) ==
  IF TruthyStr(env, "SITE_URL") THEN env.SITE_URL ELSE "http://localhost:4321"

\* new Response(xml, {status: 200, headers: {...}})
SitemapResponse(xml, cacheControl) ==
  [status |-> 200,
   headers |-> [ContentType |-> "application/xml; charset=utf-8",
                CacheControl |-> cacheControl],
   body |-> xml]

\* Mutant of ContentEntries: a record whose timestamp does not parse is
\* skipped instead of aborting the whole map.
RECURSIVE ContentEntries_SkipInvalid(_, _, _, _, _)
ContentEntries_SkipInvalid(records, prefix, changefreq, priority, baseUrl) ==
  IF records = <<>> THEN [threw |-> FALSE, value |-> <<>>]
  ELSE LET url == formatSitemapUrl(prefix \o Head(records).slug, baseUrl)
           lastmod == formatSitemapTimestamp([isString |-> TRUE,
                                              str |-> Head(records).sys.updatedAt])
           rest == ContentEntries_SkipInvalid(Tail(records), prefix, changefreq, priority, baseUrl)
       IN  IF ~shouldIncludeInSitemap(url) \/ lastmod.threw THEN rest
           ELSE [threw |-> FALSE,
                 value |-> <<[url |-> url, lastmod |-> lastmod.value,
                              changefreq |-> changefreq, priority |-> priority]>>
                           \o rest.value]

\* records.map(record => entry or null).filter(entry => entry !== null) of
\* the blog and guides routines: the url is formatted and tested first, the
\* timestamp is formatted only for a url that is kept, and the first
\* timestamp that does not parse throws out of the map.
RECURSIVE ContentEntries(_, _, _, _, _)
ContentEntries(records, prefix, changefreq, priority, baseUrl) ==
  IF records = <<>> THEN [threw |-> FALSE, value |-> <<>>]
  ELSE LET url == formatSitemapUrl(prefix \o Head(records).slug, baseUrl)
           lastmod == formatSitemapTimestamp([isString |-> TRUE,
                                              str |-> Head(records).sys.updatedAt])
           rest == ContentEntries(Tail(records), prefix, changefreq, priority, baseUrl)
       IN  IF ~shouldIncludeInSitemap(url) THEN rest
           ELSE IF lastmod.threw THEN lastmod
           ELSE IF rest.threw THEN rest
           ELSE [threw |-> FALSE,
                 value |-> <<[url |-> url, lastmod |-> lastmod.value,
                              changefreq |-> changefreq, priority |-> priority]>>
                           \o rest.value]

\* allPages.map(page => entry or null).filter(entry => entry !== null) of the
\* pages routine; static pages have no lastmod, so nothing here throws
RECURSIVE PageEntries(_, _)
PageEntries(allPages, baseUrl) ==
  IF allPages = <<>> THEN <<>>
  ELSE LET url == formatSitemapUrl(Head(allPages).url, baseUrl)
           rest == PageEntries(Tail(allPages), baseUrl)
       IN  IF ~shouldIncludeInSitemap(url) THEN rest
           ELSE <<[url |-> url, changefreq |-> Head(allPages).changefreq,
                   priority |-> Head(allPages).priority]>> \o rest

\* priorities are in tenths: 10 is 1.0
staticPages ==
  <<[url |-> "/", changefreq |-> "daily", priority |-> 10],
    [url |-> "/faq", changefreq |-> "monthly", priority |-> 7]>>

categoryPages(categories) ==
  [i \in 1..Len(categories) |->
     [url |-> "/category/" \o categories[i].slug, changefreq |-> "weekly", priority |-> 6]]

fallbackEntries(baseUrl) ==
  <<[url |-> formatSitemapUrl("/", baseUrl), changefreq |-> "daily", priority |-> 10]>>

\* GET of sitemap-pages.xml; content is the outcome of getCategories(false)
SitemapPagesGET(env, content) ==
  LET baseUrl == getSitemapBaseUrl(env)
  IN  IF content.threw
      THEN SitemapResponse(generateSitemapXml(fallbackEntries(baseUrl)), "public, max-age=300")
      ELSE SitemapResponse(
             generateSitemapXml(PageEntries(staticPages \o categoryPages(content.value), baseUrl)),
             "public, max-age=3600")

\* GET of sitemap-blog.xml; content is the outcome of getBlogPosts(1000, false)
SitemapBlogGET(env, content) ==
  LET baseUrl == getSitemapBaseUrl(env)
      sitemapEntries == ContentEntries(content.value, "/blog/", "weekly", 8, baseUrl)
  IN  IF content.threw \/ sitemapEntries.threw
      THEN SitemapResponse(generateSitemapXml(<<>>), "public, max-age=300")
      ELSE SitemapResponse(generateSitemapXml(sitemapEntries.value), "public, max-age=3600")

\* GET of sitemap-guides.xml; content is the outcome of getGuides(1000, false)
SitemapGuidesGET(env, content) ==
  LET baseUrl == getSitemapBaseUrl(env)
      sitemapEntries == ContentEntries(content.value, "/guides/", "monthly", 9, baseUrl)
  IN  IF content.threw \/ sitemapEntries.threw
      THEN SitemapResponse(generateSitemapXml(<<>>), "public, max-age=300")
      ELSE SitemapResponse(generateSitemapXml(sitemapEntries.value), "public, max-age=3600")

\* createClient of the contentful package, which rejects parameters that lack
\* a space or an access token
createClient(params) ==
  [threw |-> params.space = "" \/ params.accessToken = "", value |-> params]

\* config.host is not set by createContentfulService, so the client has no host
createDeliveryClient(config) ==
  createClient([space |-> config.spaceId, environment |-> config.environment,
                accessToken |-> config.deliveryToken])

createPreviewClient(config) ==
  createClient([space |-> config.spaceId, environment |-> config.environment,
                accessToken |-> config.previewToken, host |-> "preview.contentful.com"])

\* process.env.NAME || fallback
EnvOr(env, name, fallback) == IF TruthyStr(env, name) THEN env[name] ELSE fallback

\* the config object createContentfulService reads from the environment
ContentfulConfigOf(env) ==
  [spaceId |-> EnvOr(env, "CONTENTFUL_SPACE_ID", ""),
   environment |-> EnvOr(env, "CONTENTFUL_ENVIRONMENT", "master"),
   deliveryToken |-> EnvOr(env, "CONTENTFUL_DELIVERY_TOKEN", ""),
   previewToken |-> EnvOr(env, "CONTENTFUL_PREVIEW_TOKEN", "")]

\* the value null
Null == [class |-> "null"]

\* new ContentfulService(deliveryClient, previewClient), or what making a client threw
NewContentfulService(deliveryClient, previewClient) ==
  [threw |-> deliveryClient.threw \/ previewClient.threw,
   value |-> [class |-> "ContentfulService",
              deliveryClient |-> deliveryClient.value,
              previewClient |-> previewClient.value]]

\* Mutant of createContentfulService: the preview token is not required.
createContentfulService_PreviewTokenOptional(env) ==
  LET config == ContentfulConfigOf(env)
  IN  IF config.spaceId = "" \/ config.deliveryToken = ""
      THEN [threw |-> FALSE, value |-> Null]
      ELSE NewContentfulService(createDeliveryClient(config), createPreviewClient(config))

createContentfulService(env) ==
  LET config == ContentfulConfigOf(env)
  IN  IF config.spaceId = "" \/ config.deliveryToken = "" \/ config.previewToken = ""
      THEN [threw |-> FALSE, value |-> Null]
      ELSE NewContentfulService(createDeliveryClient(config), createPreviewClient(config))

\* the factory of the content service: the real service if there is one, else the mock
createContentService(env) ==
  LET contentfulService == createContentfulService(env)
  IN  IF contentfulService.threw THEN contentfulService
      ELSE IF contentfulService.value.class # "null" THEN contentfulService
      ELSE [threw |-> FALSE, value |-> [class |-> "MockContentfulService"]]

\* the environment of the content service: each variable unset, empty or set
CredentialValues == {"", "x"}
ContentfulEnvironments ==
  {s @@ e @@ d @@ p :
     s \in OptionalField("CONTENTFUL_SPACE_ID", CredentialValues),
     e \in OptionalField("CONTENTFUL_ENVIRONMENT", {"staging"}),
     d \in OptionalField("CONTENTFUL_DELIVERY_TOKEN", CredentialValues),
     p \in OptionalField("CONTENTFUL_PREVIEW_TOKEN", CredentialValues)}

\* Mutant of SitemapIndexGET: the guides sitemap is not referenced.
SitemapIndexGET_NoGuides(env) ==
  SitemapResponse(
    generateSitemapIndexXml(
      <<[sitemap |-> formatSitemapUrl("/sitemap-pages.xml", getSitemapBaseUrl(env))],
        [sitemap |-> formatSitemapUrl("/sitemap-blog.xml", getSitemapBaseUrl(env))]>>),
    "public, max-age=3600")

\* GET of sitemap-index.xml
SitemapIndexGET(env) ==
  LET baseUrl == getSitemapBaseUrl(env)
      sitemaps == <<[sitemap |-> formatSitemapUrl("/sitemap-pages.xml", baseUrl)],
                    [sitemap |-> formatSitemapUrl("/sitemap-blog.xml", baseUrl)],
                    [sitemap |-> formatSitemapUrl("/sitemap-guides.xml", baseUrl)]>>
  IN  SitemapResponse(generateSitemapIndexXml(sitemaps), "public, max-age=3600")

\* the environment: SITE_URL unset, empty, or a site origin; one origin is
\* written with a trailing slash and one has a host that begins with search
Environments ==
  OptionalField("SITE_URL", {"", "https://e.com", "https://e.com/", "https://search.e.com"})

\* slugs: plain, with a character to escape, and one the exclusion filter drops
RecordSlugs == {"a", "b&c", "search-tips"}

\* system timestamps as the content service delivers them, and ones that do
\* not parse
RecordTimestamps == {"2024-01-15T10:00:00.000Z", "invalid-date"}

\* the fields of a blog post or guide that the routines read
ContentRecords == {[slug |-> s, sys |-> [updatedAt |-> t]] : s \in RecordSlugs, t \in RecordTimestamps}

\* the fields of a category that the pages routine reads
CategoryRecords == {[slug |-> s] : s \in RecordSlugs}

\* what awaiting the content service gives: a rejection, or the records
FetchOutcomes(Records) ==
  {[threw |-> TRUE, value |-> <<>>]}
  \cup {[threw |-> FALSE, value |-> records] : records \in ListsUpTo(Records, MaxRecords)}

CallSitemapPagesGET ==
  /\ pc = "ready"
  /\ op = "GET sitemap-pages.xml"
  /\ ret' = SitemapPagesGET(arg.env, arg.content)
  /\ pc' = "done"
  /\ UNCHANGED <<op, arg, generator, cookies, mocks, activation>>

CallSitemapBlogGET ==
  /\ pc = "ready"
  /\ op = "GET sitemap-blog.xml"
  /\ ret' = SitemapBlogGET(arg.env, arg.content)
  /\ pc' = "done"
  /\ UNCHANGED <<op, arg, generator, cookies, mocks, activation>>

CallSitemapGuidesGET ==
  /\ pc = "ready"
  /\ op = "GET sitemap-guides.xml"
  /\ ret' = SitemapGuidesGET(arg.env, arg.content)
  /\ pc' = "done"
  /\ UNCHANGED <<op, arg, generator, cookies, mocks, activation>>

CallSitemapIndexGET ==
  /\ pc = "ready"
  /\ op = "GET sitemap-index.xml"
  /\ ret' = SitemapIndexGET(arg.env)
  /\ pc' = "done"
  /\ UNCHANGED <<op, arg, generator, cookies, mocks, activation>>

CallCreateContentService ==
  /\ pc = "ready"
  /\ op = "createContentService"
  /\ ret' = createContentService(arg.env)
  /\ pc' = "done"
  /\ UNCHANGED <<op, arg, generator, cookies, mocks, activation>>

\* a call of getSitemapBaseUrl(), which has no throw statement
CallGetSitemapBaseUrl ==
  /\ pc = "ready"
  /\ op = "getSitemapBaseUrl"
  /\ ret' = [threw |-> FALSE, value |-> getSitemapBaseUrl(arg.env)]
  /\ pc' = "done"
  /\ UNCHANGED <<op, arg, generator, cookies, mocks, activation>>

(***************************************************************************)
(* The schema.org generator: class SchemaGenerator of schemas.ts.  An      *)
(* object is a function from its keys to their values, and an optional key *)
(* that was not assigned is not in the domain.  A method is an operator of *)
(* the instance's configuration (this.config) and the method's arguments.  *)
(***************************************************************************)

\* `${n}` for an integer n
RECURSIVE ToDecimal(_)
ToDecimal(n) ==
  IF n < 0 THEN "-" \o ToDecimal(-n)
  ELSE IF n < 10 THEN DigitChar(n)
  ELSE ToDecimal(n \div 10) \o DigitChar(n % 10)

\* Mutant of AbsoluteUrl: the site url is prefixed to every url.
AbsoluteUrl_AlwaysPrefix(url, siteUrl) == siteUrl \o url

\* url.startsWith('http') ? url : `${this.config.siteUrl}${url}`, as written
\* for the images of a post, a guide and a step and for a breadcrumb's item
AbsoluteUrl(url, siteUrl) == IF StartsWith(url, "http") THEN url ELSE siteUrl \o url

\* {'@type': 'ImageObject', url: ...} of an asset
ImageObject(asset, siteUrl) ==
  ("@type" :> "ImageObject") @@ ("url" :> AbsoluteUrl(asset.fields.file.url, siteUrl))

generateOrganizationSchema(config) ==
  ("@context" :> "https://schema.org")
  @@ ("@type" :> "Organization")
  @@ ("name" :> config.organizationName)
  @@ ("url" :> config.siteUrl)
  @@ (IF TruthyStr(config, "logoUrl")
      THEN ("logo" :> (("@type" :> "ImageObject") @@ ("url" :> config.logoUrl)))
      ELSE NoFields)
  @@ (IF Has(config, "socialLinks") /\ Len(config.socialLinks) > 0
      THEN ("sameAs" :> config.socialLinks)
      ELSE NoFields)

generateWebSiteSchema(config) ==
  ("@context" :> "https://schema.org")
  @@ ("@type" :> "WebSite")
  @@ ("name" :> config.siteName)
  @@ ("url" :> config.siteUrl)
  @@ ("potentialAction" :>
        (("@type" :> "SearchAction")
         @@ ("target" :> (("@type" :> "EntryPoint")
                          @@ ("urlTemplate" :> config.siteUrl \o "/search?q={search_term_string}")))
         @@ ("query-input" :> "required name=search_term_string")))

\* Mutant of generateBlogPostingSchema: dateModified is the publication date.
generateBlogPostingSchema_PublishedAsModified(config, post, canonicalUrl) ==
  ("@context" :> "https://schema.org")
  @@ ("@type" :> "BlogPosting")
  @@ ("headline" :> post.title)
  @@ ("description" :> post.excerpt)
  @@ ("author" :> (("@type" :> "Person") @@ ("name" :> post.author.name)))
  @@ ("publisher" :> generateOrganizationSchema(config))
  @@ ("datePublished" :> post.publishedAt)
  @@ ("dateModified" :> post.publishedAt)
  @@ ("mainEntityOfPage" :> (("@type" :> "WebPage") @@ ("@id" :> canonicalUrl)))
  @@ (IF Has(post, "category") THEN ("articleSection" :> post.category.name) ELSE NoFields)
  @@ (IF Has(post, "tags") /\ Len(post.tags) > 0 THEN ("keywords" :> post.tags) ELSE NoFields)

\* Mutant of generateBlogPostingSchema: keywords is emitted whenever the post
\* has a tag list, an empty one included.
generateBlogPostingSchema_AlwaysKeywords(config, post, canonicalUrl) ==
  ("@context" :> "https://schema.org")
  @@ ("@type" :> "BlogPosting")
  @@ ("headline" :> post.title)
  @@ ("description" :> post.excerpt)
  @@ ("author" :> (("@type" :> "Person") @@ ("name" :> post.author.name)))
  @@ ("publisher" :> generateOrganizationSchema(config))
  @@ ("datePublished" :> post.publishedAt)
  @@ ("dateModified" :> post.sys.updatedAt)
  @@ ("mainEntityOfPage" :> (("@type" :> "WebPage") @@ ("@id" :> canonicalUrl)))
  @@ (IF Has(post, "category") THEN ("articleSection" :> post.category.name) ELSE NoFields)
  @@ (IF Has(post, "tags") THEN ("keywords" :> post.tags) ELSE NoFields)

generateBlogPostingSchema(config, post, canonicalUrl) ==
  ("@context" :> "https://schema.org")
  @@ ("@type" :> "BlogPosting")
  @@ ("headline" :> post.title)
  @@ ("description" :> post.excerpt)
  @@ ("author" :>
        (("@type" :> "Person")
         @@ ("name" :> post.author.name)
         @@ (IF TruthyStr(post.author, "slug")
             THEN ("url" :> config.siteUrl \o "/author/" \o post.author.slug)
             ELSE NoFields)))
  @@ ("publisher" :> generateOrganizationSchema(config))
  @@ ("datePublished" :> post.publishedAt)
  @@ ("dateModified" :> post.sys.updatedAt)
  @@ ("mainEntityOfPage" :> (("@type" :> "WebPage") @@ ("@id" :> canonicalUrl)))
  @@ (IF Has(post, "featuredImage")
      THEN ("image" :>
              (ImageObject(post.featuredImage, config.siteUrl)
               @@ (IF Has(post.featuredImage.fields.file.details, "image")
                   THEN ("width" :> post.featuredImage.fields.file.details.image.width)
                        @@ ("height" :> post.featuredImage.fields.file.details.image.height)
                   ELSE NoFields)))
      ELSE NoFields)
  @@ (IF Has(post, "category") THEN ("articleSection" :> post.category.name) ELSE NoFields)
  @@ (IF Has(post, "tags") /\ Len(post.tags) > 0 THEN ("keywords" :> post.tags) ELSE NoFields)

\* one element of guide.steps.map(...)
HowToStep(step, siteUrl) ==
  ("@type" :> "HowToStep")
  @@ ("name" :> step.title)
  @@ ("text" :> step.content)
  @@ (IF Has(step, "image") THEN ("image" :> ImageObject(step.image, siteUrl)) ELSE NoFields)

\* Mutant of generateHowToSchema: steps without an image are left out.
generateHowToSchema_SkipsPlainSteps(config, guide) ==
  ("@context" :> "https://schema.org")
  @@ ("@type" :> "HowTo")
  @@ ("name" :> guide.title)
  @@ ("description" :> guide.description)
  @@ ("step" :> [i \in 1..Len(SelectSeq(guide.steps, LAMBDA step : Has(step, "image"))) |->
                   HowToStep(SelectSeq(guide.steps, LAMBDA step : Has(step, "image"))[i],
                             config.siteUrl)])
  @@ (IF guide.estimatedTime # 0
      THEN ("totalTime" :> "PT" \o ToDecimal(guide.estimatedTime) \o "M")
      ELSE NoFields)

\* Mutant of generateHowToSchema: totalTime is emitted for every
\* estimatedTime, 0 included.
generateHowToSchema_AlwaysTotalTime(config, guide) ==
  ("@context" :> "https://schema.org")
  @@ ("@type" :> "HowTo")
  @@ ("name" :> guide.title)
  @@ ("description" :> guide.description)
  @@ ("step" :> [i \in 1..Len(guide.steps) |-> HowToStep(guide.steps[i], config.siteUrl)])
  @@ ("totalTime" :> "PT" \o ToDecimal(guide.estimatedTime) \o "M")

generateHowToSchema(config, guide) ==
  ("@context" :> "https://schema.org")
  @@ ("@type" :> "HowTo")
  @@ ("name" :> guide.title)
  @@ ("description" :> guide.description)
  @@ ("step" :> [i \in 1..Len(guide.steps) |-> HowToStep(guide.steps[i], config.siteUrl)])
  @@ (IF Has(guide, "featuredImage")
      THEN ("image" :> ImageObject(guide.featuredImage, config.siteUrl))
      ELSE NoFields)
  @@ (IF guide.estimatedTime # 0
      THEN ("totalTime" :> "PT" \o ToDecimal(guide.estimatedTime) \o "M")
      ELSE NoFields)
  @@ (IF Has(guide, "tools") /\ Len(guide.tools) > 0 THEN ("tool" :> guide.tools) ELSE NoFields)

\* Mutant of generateBreadcrumbListSchema: positions are numbered from 0.
generateBreadcrumbListSchema_FromZero(config, breadcrumbs) ==
  ("@context" :> "https://schema.org")
  @@ ("@type" :> "BreadcrumbList")
  @@ ("itemListElement" :>
        [index \in 1..Len(breadcrumbs) |->
           ("@type" :> "ListItem")
           @@ ("position" :> index - 1)
           @@ ("name" :> breadcrumbs[index].name)
           @@ ("item" :> AbsoluteUrl(breadcrumbs[index].url, config.siteUrl))])

\* the callback's index counts from 0 and a sequence's from 1, so the position
\* index + 1 of the source is the sequence's own index
generateBreadcrumbListSchema(config, breadcrumbs) ==
  ("@context" :> "https://schema.org")
  @@ ("@type" :> "BreadcrumbList")
  @@ ("itemListElement" :>
        [index \in 1..Len(breadcrumbs) |->
           ("@type" :> "ListItem")
           @@ ("position" :> index)
           @@ ("name" :> breadcrumbs[index].name)
           @@ ("item" :> AbsoluteUrl(breadcrumbs[index].url, config.siteUrl))])

\* Mutant of generateFAQPageSchema: the entries are sorted by their order
\* field before they are mapped.
generateFAQPageSchema_SortedByOrder(config, faqEntries) ==
  ("@context" :> "https://schema.org")
  @@ ("@type" :> "FAQPage")
  @@ ("mainEntity" :>
        [i \in 1..Len(faqEntries) |->
           ("@type" :> "Question")
           @@ ("name" :> SortSeq(faqEntries, LAMBDA a, b : a.order < b.order)[i].question)
           @@ ("acceptedAnswer" :>
                 (("@type" :> "Answer")
                  @@ ("text" :> SortSeq(faqEntries, LAMBDA a, b : a.order < b.order)[i].answer)))])

generateFAQPageSchema(config, faqEntries) ==
  ("@context" :> "https://schema.org")
  @@ ("@type" :> "FAQPage")
  @@ ("mainEntity" :>
        [i \in 1..Len(faqEntries) |->
           ("@type" :> "Question")
           @@ ("name" :> faqEntries[i].question)
           @@ ("acceptedAnswer" :> (("@type" :> "Answer") @@ ("text" :> faqEntries[i].answer)))])

\* the configuration createSchemaGenerator() builds from the environment
createSchemaGenerator(env) ==
  [config |->
     [siteUrl |-> IF TruthyStr(env, "SITE_URL") THEN env.SITE_URL ELSE "http://localhost:4321",
      siteName |-> "Technical SEO CWV Astro Lab",
      organizationName |-> "Technical SEO Lab",
      logoUrl |-> IF TruthyStr(env, "SITE_URL") THEN env.SITE_URL \o "/images/logo.png"
                  ELSE "http://localhost:4321/images/logo.png",
      socialLinks |-> <<"https://github.com/technical-seo-lab",
                        "https://twitter.com/techseolab",
                        "https://linkedin.com/company/technical-seo-lab">>]]

\* new SchemaGenerator(config)
NewSchemaGenerator(config) == [config |-> config]

(* Inputs of the generator. *)

\* site urls: absolute with either scheme, and one that is not absolute
SiteUrls == {"https://e.com", "http://localhost:4321", "e.com"}

\* logoUrl and socialLinks: both unset, both set but empty, both set
ConfigOptions ==
  {NoFields,
   [logoUrl |-> "", socialLinks |-> <<>>],
   [logoUrl |-> "https://e.com/images/logo.png",
    socialLinks |-> <<"https://github.com/acme", "https://twitter.com/acme">>]}

SchemaConfigs ==
  {[siteUrl |-> u, siteName |-> "Acme Lab", organizationName |-> "Acme"] @@ o :
     u \in SiteUrls, o \in ConfigOptions}

\* an asset with the given file url, with or without image dimensions
Asset(url, details) ==
  [sys |-> [id |-> "asset", createdAt |-> "2024-01-01T00:00:00.000Z",
            updatedAt |-> "2024-01-01T00:00:00.000Z"],
   fields |-> [title |-> "image",
               file |-> [url |-> url, details |-> details,
                         fileName |-> "i.png", contentType |-> "image/png"]]]

\* file urls: root-relative, absolute, protocol-relative as the CMS delivers
\* them, a relative path that begins with the letters http, and empty
AssetUrls == {"/i.png", "https://cdn.e.com/i.png", "//cdn.e.com/i.png", "httpdocs/i.png", ""}

Assets ==
  {Asset(u, [size |-> 1]) : u \in AssetUrls}
  \cup {Asset("/i.png", [size |-> 1, image |-> [width |-> 800, height |-> 600]])}

Authors ==
  {[sys |-> [id |-> "author", createdAt |-> "", updatedAt |-> ""], name |-> "Jo", slug |-> s] :
     s \in {"", "jo"}}

\* categories as transformCategory builds them: a missing name becomes ""
Categories ==
  {[sys |-> [id |-> "category", createdAt |-> "", updatedAt |-> ""],
    name |-> n, slug |-> "seo", description |-> "", color |-> ""] : n \in {"", "SEO"}}

TagLists == {<<>>, <<"seo", "cwv">>}

BlogPosts ==
  {[sys |-> [id |-> "post", createdAt |-> "2024-01-01T00:00:00.000Z",
             updatedAt |-> "2024-01-20T15:30:00.000Z"],
    title |-> "Title", slug |-> "post", excerpt |-> "Excerpt", content |-> "Content",
    author |-> a, category |-> c, tags |-> t,
    publishedAt |-> "2024-01-15T10:00:00.000Z"] @@ i :
     a \in Authors, c \in Categories, t \in TagLists,
     i \in {NoFields} \cup {[f \in {"featuredImage"} |-> asset] : asset \in Assets}}

CanonicalUrls == {"https://e.com/blog/post", ""}

GuideSteps ==
  {[title |-> "Measure", content |-> "Run the audit"],
   [title |-> "Fix", content |-> ""],
   [title |-> "Measure", content |-> "Run the audit", image |-> Asset("/s.png", [size |-> 1])],
   [title |-> "Fix", content |-> "Apply", image |-> Asset("httpdocs/s.png", [size |-> 1])]}

\* minutes: none, and some
EstimatedTimes == {0, 5, 120}

Guides ==
  {[sys |-> [id |-> "guide", createdAt |-> "", updatedAt |-> "2024-01-20T15:30:00.000Z"],
    title |-> "Guide", slug |-> "guide", description |-> "How to", content |-> "",
    difficulty |-> "beginner", estimatedTime |-> e, steps |-> s,
    category |-> [sys |-> [id |-> "category", createdAt |-> "", updatedAt |-> ""],
                  name |-> "SEO", slug |-> "seo", description |-> "", color |-> ""],
    tools |-> t, publishedAt |-> "2024-01-15T10:00:00.000Z"] @@ i :
     e \in EstimatedTimes, s \in ListsUpTo(GuideSteps, MaxSteps), t \in TagLists,
     i \in {NoFields, [f \in {"featuredImage"} |-> Asset("//cdn.e.com/g.png", [size |-> 1])]}}

Breadcrumbs ==
  {[name |-> n, url |-> u] : n \in {"Home", "Blog"}, u \in {"/", "/blog", "https://e.com/x", "http-headers"}}

FaqEntries ==
  {[sys |-> [id |-> "faq", createdAt |-> "", updatedAt |-> ""],
    question |-> q, answer |-> a, category |-> "general", order |-> o] :
     q \in {"Q1", "Q2"}, a \in {"A", ""}, o \in {1, 2}}

CallGenerateOrganizationSchema ==
  /\ pc = "ready"
  /\ op = "generateOrganizationSchema"
  /\ ret' = generateOrganizationSchema(generator.config)
  /\ pc' = "done"
  /\ UNCHANGED <<op, arg, generator, cookies, mocks, activation>>

CallGenerateWebSiteSchema ==
  /\ pc = "ready"
  /\ op = "generateWebSiteSchema"
  /\ ret' = generateWebSiteSchema(generator.config)
  /\ pc' = "done"
  /\ UNCHANGED <<op, arg, generator, cookies, mocks, activation>>

CallGenerateBlogPostingSchema ==
  /\ pc = "ready"
  /\ op = "generateBlogPostingSchema"
  /\ ret' = generateBlogPostingSchema(generator.config, arg.post, arg.canonicalUrl)
  /\ pc' = "done"
  /\ UNCHANGED <<op, arg, generator, cookies, mocks, activation>>

CallGenerateHowToSchema ==
  /\ pc = "ready"
  /\ op = "generateHowToSchema"
  /\ ret' = generateHowToSchema(generator.config, arg.guide)
  /\ pc' = "done"
  /\ UNCHANGED <<op, arg, generator, cookies, mocks, activation>>

CallGenerateBreadcrumbListSchema ==
  /\ pc = "ready"
  /\ op = "generateBreadcrumbListSchema"
  /\ ret' = generateBreadcrumbListSchema(generator.config, arg.breadcrumbs)
  /\ pc' = "done"
  /\ UNCHANGED <<op, arg, generator, cookies, mocks, activation>>

CallGenerateFAQPageSchema ==
  /\ pc = "ready"
  /\ op = "generateFAQPageSchema"
  /\ ret' = generateFAQPageSchema(generator.config, arg.faqEntries)
  /\ pc' = "done"
  /\ UNCHANGED <<op, arg, generator, cookies, mocks, activation>>

(***************************************************************************)
(* validateAndFormatSlug of src/src/lib/urlPatterns.ts                     *)
(***************************************************************************)
\* URL_VALIDATION_RULES.slug
minLength == 3
maxLength == 100

\* URL_VALIDATION_RULES.slug.pattern.test(s): ^[a-z0-9]+(?:-[a-z0-9]+)*$
IsLowerAlnum(c) == Len(c) = 1 /\ (Includes(LowerAlpha, c) \/ Includes(DecimalDigits, c))

\* every character is of [a-z0-9], or a hyphen between two characters of [a-z0-9]
SlugPatternTest(s) ==
  /\ s # ""
  /\ \A i \in 1..Len(s) :
       \/ IsLowerAlnum(CharAt(s, i))
       \/ /\ CharAt(s, i) = "-"
          /\ i > 1 /\ IsLowerAlnum(CharAt(s, i - 1))
          /\ i < Len(s) /\ IsLowerAlnum(CharAt(s, i + 1))

\* the characters of [\s_] that the model's slugs have, and of [-]
SpaceOrUnderscore == " \t\n_"
Hyphen == "-"

\* what a replacement writes for the character at position i of s
LowerCaseAt(s, i, class) == LowerChar(CharAt(s, i))

\* .replace(/[class]+/g, '-'): a hyphen for the first character of a run, nothing for the others
RunAsHyphenAt(s, i, class) ==
  IF ~Includes(class, CharAt(s, i)) THEN CharAt(s, i)
  ELSE IF i > 1 /\ Includes(class, CharAt(s, i - 1)) THEN "" ELSE "-"

\* .replace(/[^a-z0-9\-]/g, '')
SlugCharacterAt(s, i, class) ==
  IF IsLowerAlnum(CharAt(s, i)) \/ CharAt(s, i) = "-" THEN CharAt(s, i) ELSE ""

\* a global replacement over the positions lo..hi of s, one half after the other
RECURSIVE ReplaceEach(_, _, _, _, _)
ReplaceEach(s, lo, hi, replacement, class) ==
  IF lo > hi THEN ""
  ELSE IF lo = hi
  THEN CASE replacement = "toLowerCase" -> LowerCaseAt(s, lo, class)
         [] replacement = "runs" -> RunAsHyphenAt(s, lo, class)
         [] replacement = "remove" -> SlugCharacterAt(s, lo, class)
  ELSE ReplaceEach(s, lo, (lo + hi) \div 2, replacement, class)
       \o ReplaceEach(s, (lo + hi) \div 2 + 1, hi, replacement, class)

\* .replace(/-+$/, ''): s without the hyphens at its end
DropTrailing(s, class) ==
  LET kept == {i \in 1..Len(s) : ~Includes(class, CharAt(s, i))}
  IN  IF kept = {} THEN ""
      ELSE SubSeq(s, 1, CHOOSE i \in kept : \A k \in kept : k <= i)

\* .replace(/^-+|-+$/g, ''): s without the hyphens at its start and at its end
DropLeadingAndTrailing(s, class) ==
  LET kept == {i \in 1..Len(s) : ~Includes(class, CharAt(s, i))}
  IN  IF kept = {} THEN ""
      ELSE SubSeq(s, CHOOSE i \in kept : \A k \in kept : i <= k,
                  CHOOSE i \in kept : \A k \in kept : k <= i)

\* the chain of replacements that makes formattedSlug
FormatSlug(slug) ==
  LET lower == ReplaceEach(slug, 1, Len(slug), "toLowerCase", "")
      hyphenated == ReplaceEach(lower, 1, Len(lower), "runs", SpaceOrUnderscore)
      removed == ReplaceEach(hyphenated, 1, Len(hyphenated), "remove", "")
      trimmed == DropLeadingAndTrailing(removed, Hyphen)
  IN  ReplaceEach(trimmed, 1, Len(trimmed), "runs", Hyphen)

\* the slug that is returned, or the error for one that fails the pattern
CheckedSlug(formattedSlug) ==
  IF ~SlugPatternTest(formattedSlug)
  THEN [threw |-> TRUE,
        value |-> "Invalid slug format: " \o formattedSlug
                  \o ". Lowercase letters, numbers, and hyphens only. Must start and end with alphanumeric."]
  ELSE [threw |-> FALSE, value |-> formattedSlug]

\* Mutant of validateAndFormatSlug: a slug cut at maxLength keeps the hyphen
\* it is cut at.
validateAndFormatSlug_KeepsCutHyphen(slug) ==
  IF slug = "" THEN [threw |-> TRUE, value |-> "Slug cannot be empty"]
  ELSE IF Len(FormatSlug(slug)) < minLength
  THEN [threw |-> TRUE,
        value |-> "Slug must be at least " \o ToDecimal(minLength) \o " characters long"]
  ELSE IF Len(FormatSlug(slug)) > maxLength
  THEN CheckedSlug(SubSeq(FormatSlug(slug), 1, maxLength))
  ELSE CheckedSlug(FormatSlug(slug))

validateAndFormatSlug(slug) ==
  LET formattedSlug == FormatSlug(slug)
  IN  IF slug = "" THEN [threw |-> TRUE, value |-> "Slug cannot be empty"]
      ELSE IF Len(formattedSlug) < minLength
      THEN [threw |-> TRUE,
            value |-> "Slug must be at least " \o ToDecimal(minLength) \o " characters long"]
      ELSE IF Len(formattedSlug) > maxLength
      THEN CheckedSlug(DropTrailing(SubSeq(formattedSlug, 1, maxLength), Hyphen))
      ELSE CheckedSlug(formattedSlug)

\* slugs: short ones, and ones that reach maxLength, over an alphabet with a
\* character of each class the replacements tell apart
RECURSIVE Repeat(_, _)
Repeat(c, n) == IF n = 0 THEN "" ELSE c \o Repeat(c, n - 1)

SlugAlphabet == {"a", "B", "-", " ", "_", "!"}
SlugInputs ==
  {head \o tail :
     head \in {"", Repeat("a", maxLength - 1)},
     tail \in StrsUpTo(SlugAlphabet, MaxSlugTail)}

CallValidateAndFormatSlug ==
  /\ pc = "ready"
  /\ op = "validateAndFormatSlug"
  /\ ret' = validateAndFormatSlug(arg.slug)
  /\ pc' = "done"
  /\ UNCHANGED <<op, arg, generator, cookies, mocks, activation>>

\* no schema generator has been constructed
NoGenerator == NoFields

\* the callers of a component that several callers share
Callers == 1..NumCallers

\* the client of the preview endpoint holds no cookie
NoCookies == NoFields

(***************************************************************************)
(* The mock content service of src/unnamed/part_004 (lib/mocks).  The      *)
(* exported arrays are module state, which every instance of the service   *)
(* reads; `mocks` holds them.  A record keeps its sys.id and the fields    *)
(* the service reads.                                                      *)
(***************************************************************************)
mockCategories ==
  <<[sys |-> [id |-> "mock-category-performance"], name |-> "Performance", slug |-> "performance"],
    [sys |-> [id |-> "mock-category-seo"], name |-> "Technical SEO", slug |-> "technical-seo"],
    [sys |-> [id |-> "mock-category-astro"], name |-> "Astro Framework", slug |-> "astro-framework"]>>

mockBlogPosts ==
  <<[sys |-> [id |-> "mock-blog-1"], slug |-> "advanced-core-web-vitals-optimization-astro",
     publishedAt |-> "2024-01-15T10:00:00Z"],
    [sys |-> [id |-> "mock-blog-2"], slug |-> "technical-seo-best-practices-modern-web-apps",
     publishedAt |-> "2024-01-20T14:30:00Z"],
    [sys |-> [id |-> "mock-blog-3"], slug |-> "building-seo-first-applications-astro-contentful",
     publishedAt |-> "2024-01-25T09:15:00Z"]>>

mockGuides ==
  <<[sys |-> [id |-> "mock-guide-1"], slug |-> "complete-guide-astro-seo-optimization",
     publishedAt |-> "2024-01-10T08:00:00Z"],
    [sys |-> [id |-> "mock-guide-2"], slug |-> "core-web-vitals-optimization-masterclass",
     publishedAt |-> "2024-01-12T11:30:00Z"]>>

mockFaqEntries ==
  <<[sys |-> [id |-> "mock-faq-1"], order |-> 1],
    [sys |-> [id |-> "mock-faq-2"], order |-> 2],
    [sys |-> [id |-> "mock-faq-3"], order |-> 3],
    [sys |-> [id |-> "mock-faq-4"], order |-> 4],
    [sys |-> [id |-> "mock-faq-5"], order |-> 5]>>

\* the exported arrays when the module has been loaded
MockDataset ==
  [mockBlogPosts |-> mockBlogPosts, mockGuides |-> mockGuides,
   mockCategories |-> mockCategories, mockFaqEntries |-> mockFaqEntries]

\* new Date(b).getTime() - new Date(a).getTime() < 0: a is later than b.
\* The time value of a date is its day number and the milliseconds in the day.
IsLater(a, b) ==
  LET x == DateParse(a)
      y == DateParse(b)
  IN  x.day > y.day \/ (x.day = y.day /\ x.msInDay > y.msInDay)

\* array.slice(0, end)
SliceTo(array, end) ==
  LET last == IF end < 0 THEN Len(array) + end ELSE end
  IN  SubSeq(array, 1, IF last > Len(array) THEN Len(array) ELSE IF last < 0 THEN 0 ELSE last)

\* array.find((record) => record.slug === slug) || null
FindBySlug(array, slug) ==
  IF \E i \in 1..Len(array) : array[i].slug = slug
  THEN array[CHOOSE i \in 1..Len(array) :
               array[i].slug = slug /\ \A k \in 1..(i - 1) : array[k].slug # slug]
  ELSE Null

\* a.localeCompare(b) < 0, for names of letters and spaces
RECURSIVE ComesBefore(_, _)
ComesBefore(a, b) ==
  LET collation == " abcdefghijklmnopqrstuvwxyz"
      x == IndexOf(collation, LowerChar(CharAt(a, 1)))
      y == IndexOf(collation, LowerChar(CharAt(b, 1)))
  IN  IF b = "" THEN FALSE
      ELSE IF a = "" THEN TRUE
      ELSE IF x # y THEN x < y
      ELSE ComesBefore(SliceFrom(a, 1), SliceFrom(b, 1))

\* .sort((a, b) => new Date(b.publishedAt).getTime() - new Date(a.publishedAt).getTime())
NewestFirst(array) ==
  SortSeq(array, LAMBDA a, b : IsLater(a.publishedAt, b.publishedAt))

\* The methods of MockContentfulService, after their timer has fired: the
\* exported arrays when the method returns, and the value it resolves to.
\* Array.prototype.sort sorts the array it is called on and returns it.
getBlogPost(dataset, slug) ==
  [mocks |-> dataset, value |-> FindBySlug(dataset.mockBlogPosts, slug)]

getBlogPosts(dataset, limit) ==
  LET sorted == NewestFirst(dataset.mockBlogPosts)
  IN  [mocks |-> [dataset EXCEPT !.mockBlogPosts = sorted], value |-> SliceTo(sorted, limit)]

getGuide(dataset, slug) ==
  [mocks |-> dataset, value |-> FindBySlug(dataset.mockGuides, slug)]

getGuides(dataset, limit) ==
  LET sorted == NewestFirst(dataset.mockGuides)
  IN  [mocks |-> [dataset EXCEPT !.mockGuides = sorted], value |-> SliceTo(sorted, limit)]

getCategory(dataset, slug) ==
  [mocks |-> dataset, value |-> FindBySlug(dataset.mockCategories, slug)]

\* [...mockCategories].sort(...): a copy is sorted
getCategories(dataset) ==
  [mocks |-> dataset,
   value |-> SortSeq(dataset.mockCategories, LAMBDA a, b : ComesBefore(a.name, b.name))]

getFaqEntries(dataset) ==
  [mocks |-> dataset,
   value |-> SortSeq(dataset.mockFaqEntries, LAMBDA a, b : a.order < b.order)]

MockMethods ==
  {"getBlogPost", "getBlogPosts", "getGuide", "getGuides", "getCategory", "getCategories",
   "getFaqEntries"}

\* the limit of a call: the argument, or the default of the parameter
LimitOf(input) == IF Has(input, "limit") THEN input.limit ELSE 10

\* a method of the service resumes after its timer
MockMethod(dataset, method, input) ==
  CASE method = "getBlogPost" -> getBlogPost(dataset, input.slug)
    [] method = "getBlogPosts" -> getBlogPosts(dataset, LimitOf(input))
    [] method = "getGuide" -> getGuide(dataset, input.slug)
    [] method = "getGuides" -> getGuides(dataset, LimitOf(input))
    [] method = "getCategory" -> getCategory(dataset, input.slug)
    [] method = "getCategories" -> getCategories(dataset)
    [] method = "getFaqEntries" -> getFaqEntries(dataset)

\* the arguments of the calls of the model
MockInputs(method) ==
  CASE method \in {"getBlogPost", "getGuide", "getCategory"} ->
         [slug : {"technical-seo", "technical-seo-best-practices-modern-web-apps",
                  "complete-guide-astro-seo-optimization"}]
    [] method \in {"getBlogPosts", "getGuides"} -> OptionalField("limit", {0, 1, 2})
    [] OTHER -> {NoFields}

MockCalls ==
  UNION {{[method |-> method, input |-> input] : input \in MockInputs(method)} :
           method \in MockMethods}

\* await new Promise((resolve) => setTimeout(resolve, ...)): the call waits
\* for its timer, and other callers run meanwhile
MockAwait(caller) ==
  /\ pc[caller] = "ready"
  /\ pc' = [pc EXCEPT ![caller] = "waiting"]
  /\ UNCHANGED <<op, arg, ret, generator, cookies, mocks, activation>>

\* the timer has fired, and the rest of the method runs to its return
MockResume(caller) ==
  /\ pc[caller] = "waiting"
  /\ LET call == MockMethod(mocks, op[caller], arg.calls[caller])
     IN  /\ mocks' = call.mocks
         /\ ret' = [ret EXCEPT ![caller] = call.value]
  /\ pc' = [pc EXCEPT ![caller] = "done"]
  /\ UNCHANGED <<op, arg, generator, cookies, activation>>

MockInit ==
  /\ pc = [caller \in Callers |-> "ready"]
  /\ ret = [caller \in Callers |-> Null]
  /\ \E calls \in [Callers -> MockCalls] :
       /\ op = [caller \in Callers |-> calls[caller].method]
       /\ arg = [calls |-> [caller \in Callers |-> calls[caller].input]]
  /\ generator = NoGenerator
  /\ cookies = NoCookies
  /\ mocks = MockDataset
  /\ activation = Null

MockNext == \E caller \in Callers : MockAwait(caller) \/ MockResume(caller)

MockSpec == MockInit /\ [][MockNext]_vars

(***************************************************************************)
(* The preview endpoint of src/src/pages/api/preview.ts.  `cookies` is the *)
(* cookie jar of the client, which the handlers read and write through     *)
(* Astro's cookies object: the name of each cookie it holds, with its      *)
(* value.                                                                  *)
(***************************************************************************)
\* JSON.stringify of a string
RECURSIVE JsonEscape(_)
JsonEscape(str) ==
  IF str = "" THEN ""
  ELSE (IF CharAt(str, 1) = "\"" THEN "\\\""
        ELSE IF CharAt(str, 1) = "\\" THEN "\\\\"
        ELSE CharAt(str, 1)) \o JsonEscape(SliceFrom(str, 1))

JsonQuote(str) == "\"" \o JsonEscape(str) \o "\""

\* JSON.stringify({contentType, slug, activatedAt})
StringifyMeta(meta) ==
  "{\"contentType\":" \o JsonQuote(meta.contentType)
  \o ",\"slug\":" \o JsonQuote(meta.slug)
  \o ",\"activatedAt\":" \o JsonQuote(meta.activatedAt) \o "}"

\* reading a JSON string whose opening quote is before position i
RECURSIVE ScanString(_, _, _)
ScanString(text, i, acc) ==
  IF i > Len(text) THEN [ok |-> FALSE, value |-> "", next |-> i]
  ELSE IF CharAt(text, i) = "\"" THEN [ok |-> TRUE, value |-> acc, next |-> i + 1]
  ELSE IF CharAt(text, i) = "\\"
       THEN IF i < Len(text) /\ CharAt(text, i + 1) \in {"\"", "\\"}
            THEN ScanString(text, i + 2, acc \o CharAt(text, i + 1))
            ELSE [ok |-> FALSE, value |-> "", next |-> i]
  ELSE ScanString(text, i + 1, acc \o CharAt(text, i))

ReadString(text, i) ==
  IF i <= Len(text) /\ CharAt(text, i) = "\"" THEN ScanString(text, i + 1, "")
  ELSE [ok |-> FALSE, value |-> "", next |-> i]

\* reading the members of a JSON object from position i on
RECURSIVE ReadMembers(_, _, _)
ReadMembers(text, i, object) ==
  LET key == ReadString(text, i)
      value == ReadString(text, key.next + 1)
      member == (key.value :> value.value) @@ object
  IN  IF ~key.ok \/ key.next > Len(text) \/ CharAt(text, key.next) # ":" \/ ~value.ok
      THEN [threw |-> TRUE, value |-> NoFields]
      ELSE IF value.next = Len(text) /\ CharAt(text, value.next) = "}"
      THEN [threw |-> FALSE, value |-> member]
      ELSE IF value.next < Len(text) /\ CharAt(text, value.next) = ","
      THEN ReadMembers(text, value.next + 1, member)
      ELSE [threw |-> TRUE, value |-> NoFields]

\* JSON.parse of the text of an object whose members are strings; it throws
\* a SyntaxError for text that is not JSON
JsonParse(text) ==
  IF text = "{}" THEN [threw |-> FALSE, value |-> NoFields]
  ELSE IF Len(text) > 2 /\ CharAt(text, 1) = "{" THEN ReadMembers(text, 2, NoFields)
  ELSE [threw |-> TRUE, value |-> NoFields]

\* new Response(JSON.stringify(json), {status, headers: {'Content-Type': 'application/json'}});
\* json is the object that is written into the body
JsonResponse(status, json) ==
  [status |-> status, headers |-> ("Content-Type" :> "application/json"), json |-> json]

\* redirect(url, 302)
Redirect(url, status) ==
  [status |-> status, headers |-> ("Location" :> url), json |-> NoFields]

\* headers.get(name)?.includes(text)
HeaderIncludes(headers, name, text) == Has(headers, name) /\ Includes(headers[name], text)

\* process.env.CONTENTFUL_PREVIEW_SECRET || 'mock-preview-secret'
ExpectedSecret(env) == EnvOr(env, "CONTENTFUL_PREVIEW_SECRET", "mock-preview-secret")

\* the two cookies.set calls of POST, on the jar
SetPreviewCookies(jar, contentTypeToUse, slug, now) ==
  ("preview" :> "true")
  @@ ("preview-meta" :> StringifyMeta([contentType |-> contentTypeToUse, slug |-> slug,
                                       activatedAt |-> now]))
  @@ jar

\* the checks of POST on the fields of a body that has been read
PreviewActivation(request, jar, env, now) ==
  LET body == request.body.fields
      contentTypeToUse == IF TruthyStr(body, "contentType") THEN body.contentType ELSE "blog"
      previewUrl == "/preview/" \o contentTypeToUse \o "/" \o body.slug
  IN  IF ~TruthyStr(body, "secret")
      THEN [response |-> JsonResponse(400, [error |-> "Preview secret is required"]),
            cookies |-> jar]
      ELSE IF ~TruthyStr(body, "slug")
      THEN [response |-> JsonResponse(400, [error |-> "Content slug is required"]),
            cookies |-> jar]
      ELSE IF body.secret # ExpectedSecret(env)
      THEN [response |-> JsonResponse(401, [error |-> "Invalid preview secret"]),
            cookies |-> jar]
      ELSE IF contentTypeToUse \notin {"blog", "guide"}
      THEN [response |-> JsonResponse(400, [error |-> "Invalid content type. Must be one of: blog, guide"]),
            cookies |-> jar]
      ELSE [response |->
              IF HeaderIncludes(request.headers, "accept", "application/json")
              THEN JsonResponse(200, [success |-> TRUE, previewUrl |-> previewUrl,
                                      message |-> "Preview mode activated successfully"])
              ELSE Redirect(previewUrl, 302),
            cookies |-> SetPreviewCookies(jar, contentTypeToUse, body.slug, now)]

\* Mutant of PreviewPOST: the cookies are set as soon as the body has been
\* read, before its fields are checked.
PreviewPOST_SetsCookiesFirst(request, jar, env, now) ==
  IF ~HeaderIncludes(request.headers, "content-type", "application/json")
     /\ ~HeaderIncludes(request.headers, "content-type", "application/x-www-form-urlencoded")
  THEN [response |-> JsonResponse(400, [error |-> "Invalid content type. Expected application/json or application/x-www-form-urlencoded"]),
        cookies |-> jar]
  ELSE IF ~request.body.readable
  THEN [response |-> JsonResponse(500, [error |-> "Preview activation failed",
                                        message |-> "An internal error occurred while activating preview mode"]),
        cookies |-> jar]
  ELSE [response |-> PreviewActivation(request, jar, env, now).response,
        cookies |-> SetPreviewCookies(jar, "blog",
                                      IF Has(request.body.fields, "slug")
                                      THEN request.body.fields.slug ELSE "", now)]

\* POST: the response, and the jar after it.  A body that cannot be read as
\* what its content type says rejects request.json() or request.formData(),
\* and the catch block answers.
PreviewPOST(request, jar, env, now) ==
  IF ~HeaderIncludes(request.headers, "content-type", "application/json")
     /\ ~HeaderIncludes(request.headers, "content-type", "application/x-www-form-urlencoded")
  THEN [response |-> JsonResponse(400, [error |-> "Invalid content type. Expected application/json or application/x-www-form-urlencoded"]),
        cookies |-> jar]
  ELSE IF ~request.body.readable
  THEN [response |-> JsonResponse(500, [error |-> "Preview activation failed",
                                        message |-> "An internal error occurred while activating preview mode"]),
        cookies |-> jar]
  ELSE PreviewActivation(request, jar, env, now)

\* Mutant of PreviewDELETE: only the metadata cookie is deleted.
PreviewDELETE_KeepsPreview(jar) ==
  [response |-> JsonResponse(200, [success |-> TRUE,
                                   message |-> "Preview mode deactivated successfully"]),
   cookies |-> [name \in DOMAIN jar \ {"preview-meta"} |-> jar[name]]]

\* DELETE
PreviewDELETE(jar) ==
  [response |-> JsonResponse(200, [success |-> TRUE,
                                   message |-> "Preview mode deactivated successfully"]),
   cookies |-> [name \in DOMAIN jar \ {"preview", "preview-meta"} |-> jar[name]]]

\* GET: the status check
PreviewGET(jar, now) ==
  LET isActive == Has(jar, "preview") /\ jar["preview"] = "true"
      parsed == JsonParse(jar["preview-meta"])
      metadata == IF isActive /\ TruthyStr(jar, "preview-meta") /\ ~parsed.threw
                  THEN parsed.value ELSE Null
  IN  JsonResponse(200, [active |-> isActive, metadata |-> metadata, timestamp |-> now])

\* PUT, PATCH and HEAD
GET_FALLBACK ==
  [status |-> 405,
   headers |-> ("Content-Type" :> "application/json") @@ ("Allow" :> "GET, POST, DELETE"),
   json |-> [error |-> "Method not allowed", allowedMethods |-> <<"GET", "POST", "DELETE">>]]

PreviewOPTIONS ==
  [status |-> 200,
   headers |-> ("Allow" :> "GET, POST, DELETE, OPTIONS")
               @@ ("Access-Control-Allow-Methods" :> "GET, POST, DELETE, OPTIONS")
               @@ ("Access-Control-Allow-Headers" :> "Content-Type, Authorization"),
   json |-> NoFields]

\* the requests of the model
PreviewEnvironments == OptionalField("CONTENTFUL_PREVIEW_SECRET", {"", "s3cret"})
RequestHeaders ==
  {c @@ a :
     c \in OptionalField("content-type", {"application/json; charset=utf-8", "text/plain"}),
     a \in OptionalField("accept", {"application/json"})}
\* the secret is one of the two expected secrets of PreviewEnvironments, and
\* each is the wrong secret where the other is expected
BodyFields ==
  {s @@ g @@ t :
     s \in OptionalField("secret", {"mock-preview-secret", "s3cret"}),
     g \in OptionalField("slug", {"", "my-post", "a\"b"}),
     t \in OptionalField("contentType", {"guide", "page"})}
Unreadable == [readable |-> FALSE, fields |-> NoFields]
PostRequests ==
  [headers : RequestHeaders,
   body : {Unreadable} \cup {[readable |-> TRUE, fields |-> f] : f \in BodyFields}]
NoRequest == [headers |-> NoFields, body |-> Unreadable]
\* what new Date().toISOString() gives while the requests are made
Clock == {"2024-01-15T10:00:00.000Z"}

\* the content a request activates: its type, or blog, and its slug
ActivationOf(request) ==
  [contentType |-> IF TruthyStr(request.body.fields, "contentType")
                   THEN request.body.fields.contentType ELSE "blog",
   slug |-> request.body.fields.slug]

\* a request is answered.  The handler runs to its end before the client
\* sends the next request with the jar the response left.
HandlePOST ==
  \E request \in PostRequests, now \in Clock :
    LET answer == PreviewPOST(request, cookies, arg.env, now)
    IN  /\ op' = "POST"
        /\ arg' = [env |-> arg.env, request |-> request, now |-> now]
        /\ ret' = answer.response
        /\ cookies' = answer.cookies
        /\ activation' = IF answer.response.status \in {200, 302}
                         THEN ActivationOf(request) ELSE activation
        /\ pc' = "done"
        /\ UNCHANGED <<generator, mocks>>

HandleDELETE ==
  LET answer == PreviewDELETE(cookies)
  IN  /\ op' = "DELETE"
      /\ arg' = [env |-> arg.env, request |-> NoRequest, now |-> arg.now]
      /\ ret' = answer.response
      /\ cookies' = answer.cookies
      /\ activation' = IF answer.response.status = 200 THEN Null ELSE activation
      /\ pc' = "done"
      /\ UNCHANGED <<generator, mocks>>

HandleGET ==
  \E now \in Clock :
    /\ op' = "GET"
    /\ arg' = [env |-> arg.env, request |-> NoRequest, now |-> now]
    /\ ret' = PreviewGET(cookies, now)
    /\ pc' = "done"
    /\ UNCHANGED <<generator, mocks, cookies, activation>>

HandleFallback ==
  \E method \in {"PUT", "PATCH", "HEAD"} :
    /\ op' = method
    /\ arg' = [env |-> arg.env, request |-> NoRequest, now |-> arg.now]
    /\ ret' = GET_FALLBACK
    /\ pc' = "done"
    /\ UNCHANGED <<generator, mocks, cookies, activation>>

HandleOPTIONS ==
  /\ op' = "OPTIONS"
  /\ arg' = [env |-> arg.env, request |-> NoRequest, now |-> arg.now]
  /\ ret' = PreviewOPTIONS
  /\ pc' = "done"
  /\ UNCHANGED <<generator, mocks, cookies, activation>>

PreviewInit ==
  /\ pc = "ready"
  /\ op = ""
  /\ arg \in [env : PreviewEnvironments, request : {NoRequest}, now : Clock]
  /\ ret = [status |-> 0, headers |-> NoFields, json |-> NoFields]
  /\ generator = NoGenerator
  /\ cookies = NoCookies
  /\ mocks = MockDataset
  /\ activation = Null

PreviewNext ==
  \/ HandlePOST
  \/ HandleDELETE
  \/ HandleGET
  \/ HandleFallback
  \/ HandleOPTIONS

PreviewSpec == PreviewInit /\ [][PreviewNext]_vars

(***************************************************************************)
(* The specification: a caller picks a function and its arguments, and the *)
(* function is applied once.                                               *)
(***************************************************************************)
NoReturn == [threw |-> FALSE, value |-> ""]

Init ==
  /\ pc = "ready"
  /\ ret = NoReturn
  /\ generator = NoGenerator
  /\ cookies = NoCookies
  /\ mocks = MockDataset
  /\ activation = Null
  /\ \/ op = "formatSitemapUrl" /\ arg \in FormatArgs
     \/ op = "validateSitemapUrl" /\ arg \in [url : ValidateInputs]
     \/ op = "formatSitemapTimestamp" /\ arg \in [timestamp : TimestampInputs]
     \/ op = "shouldIncludeInSitemap" /\ arg \in [url : IncludeInputs]
     \/ op = "generateSitemapEntry" /\ arg \in [entry : SitemapEntries]
     \/ op = "generateSitemapIndexEntry" /\ arg \in [entry : SitemapIndexEntries]
     \/ op = "generateSitemapXml" /\ arg \in [entries : ListsUpTo(DocEntries, MaxEntries)]
     \/ op = "generateSitemapIndexXml" /\ arg \in [entries : ListsUpTo(DocIndexEntries, MaxEntries)]
     \/ op = "validateAndFormatSlug" /\ arg \in [slug : SlugInputs]

Next ==
  \/ CallFormatSitemapUrl
  \/ CallValidateSitemapUrl
  \/ CallFormatSitemapTimestamp
  \/ CallShouldIncludeInSitemap
  \/ CallGenerateSitemapEntry
  \/ CallGenerateSitemapIndexEntry
  \/ CallGenerateSitemapXml
  \/ CallGenerateSitemapIndexXml
  \/ CallValidateAndFormatSlug

Spec == Init /\ [][Next]_vars

(***************************************************************************)
(* The specification of the sitemap page routines: a request arrives with  *)
(* some environment and some outcome of the content fetch, and the routine *)
(* answers it.                                                             *)
(***************************************************************************)

NoResponse == [status |-> 0, headers |-> [ContentType |-> "", CacheControl |-> ""], body |-> ""]

PagesInit ==
  /\ pc = "ready"
  /\ ret = NoResponse
  /\ generator = NoGenerator
  /\ cookies = NoCookies
  /\ mocks = MockDataset
  /\ activation = Null
  /\ \/ /\ op = "GET sitemap-pages.xml"
        /\ arg \in [env : Environments, content : FetchOutcomes(CategoryRecords)]
     \/ /\ op \in {"GET sitemap-blog.xml", "GET sitemap-guides.xml"}
        /\ arg \in [env : Environments, content : FetchOutcomes(ContentRecords)]
     \/ /\ op \in {"GET sitemap-index.xml", "getSitemapBaseUrl"}
        /\ arg \in [env : Environments]
     \/ /\ op = "createContentService"
        /\ arg \in [env : ContentfulEnvironments]

PagesNext ==
  \/ CallSitemapPagesGET
  \/ CallSitemapBlogGET
  \/ CallSitemapGuidesGET
  \/ CallSitemapIndexGET
  \/ CallGetSitemapBaseUrl
  \/ CallCreateContentService

PagesSpec == PagesInit /\ [][PagesNext]_vars

(***************************************************************************)
(* The specification of the schema generator: a generator is constructed   *)
(* with some configuration, and one of its methods is called once.         *)
(***************************************************************************)

NoSchema == NoFields

SchemaInit ==
  /\ pc = "ready"
  /\ ret = NoSchema
  /\ generator \in {NewSchemaGenerator(config) : config \in SchemaConfigs}
  /\ cookies = NoCookies
  /\ mocks = MockDataset
  /\ activation = Null
  /\ \/ op \in {"generateOrganizationSchema", "generateWebSiteSchema"} /\ arg = NoFields
     \/ /\ op = "generateBlogPostingSchema"
        /\ arg \in [post : BlogPosts, canonicalUrl : CanonicalUrls]
     \/ op = "generateHowToSchema" /\ arg \in [guide : Guides]
     \/ /\ op = "generateBreadcrumbListSchema"
        /\ arg \in [breadcrumbs : ListsUpTo(Breadcrumbs, MaxCrumbs)]
     \/ op = "generateFAQPageSchema" /\ arg \in [faqEntries : ListsUpTo(FaqEntries, MaxCrumbs)]

SchemaNext ==
  \/ CallGenerateOrganizationSchema
  \/ CallGenerateWebSiteSchema
  \/ CallGenerateBlogPostingSchema
  \/ CallGenerateHowToSchema
  \/ CallGenerateBreadcrumbListSchema
  \/ CallGenerateFAQPageSchema

SchemaSpec == SchemaInit /\ [][SchemaNext]_vars

(***************************************************************************)
(* One generator shared by several callers.  The methods are synchronous,  *)
(* so a call runs from its first statement to its return without another   *)
(* caller's code in between, and callers interleave call by call.  In this *)
(* specification op, arg.calls, ret and pc have one value per caller, and  *)
(* arg.config is the configuration the generator was constructed with.     *)
(***************************************************************************)

Methods ==
  {"generateOrganizationSchema", "generateWebSiteSchema", "generateBlogPostingSchema",
   "generateHowToSchema", "generateBreadcrumbListSchema", "generateFAQPageSchema"}

\* what generator.method(...input) returns, given this.config
MethodResult(config, method, input) ==
  CASE method = "generateOrganizationSchema" -> generateOrganizationSchema(config)
    [] method = "generateWebSiteSchema" -> generateWebSiteSchema(config)
    [] method = "generateBlogPostingSchema" ->
         generateBlogPostingSchema(config, input.post, input.canonicalUrl)
    [] method = "generateHowToSchema" -> generateHowToSchema(config, input.guide)
    [] method = "generateBreadcrumbListSchema" ->
         generateBreadcrumbListSchema(config, input.breadcrumbs)
    [] method = "generateFAQPageSchema" -> generateFAQPageSchema(config, input.faqEntries)

\* Mutant of Invoke: the method tidies the site url of its configuration in
\* place before it returns.
Invoke_WritesConfig(this, method, input) ==
  [this |-> [config |-> [this.config EXCEPT !.siteUrl = this.config.siteUrl \o "/"]],
   value |-> MethodResult(this.config, method, input)]

\* a call of a method on the instance `this`: the instance after the call and
\* the value returned.  No method of the class assigns this.config or a key
\* of it, so the instance after the call is the instance before it.
Invoke(this, method, input) ==
  [this |-> this, value |-> MethodResult(this.config, method, input)]

\* the arguments a caller passes to a method
InputOf(method) ==
  CASE method \in {"generateOrganizationSchema", "generateWebSiteSchema"} -> NoFields
    [] method = "generateBlogPostingSchema" ->
         [post |-> CHOOSE post \in BlogPosts :
                     /\ post.author.slug = "jo" /\ post.category.name = "SEO"
                     /\ post.tags # <<>> /\ ~Has(post, "featuredImage"),
          canonicalUrl |-> "https://e.com/blog/post"]
    [] method = "generateHowToSchema" ->
         [guide |-> CHOOSE guide \in Guides :
                      /\ guide.estimatedTime = 5 /\ Len(guide.steps) = 1
                      /\ Has(guide.steps[1], "image") /\ guide.tools # <<>>
                      /\ Has(guide, "featuredImage")]
    [] method = "generateBreadcrumbListSchema" ->
         [breadcrumbs |-> <<[name |-> "Home", url |-> "/"], [name |-> "Blog", url |-> "/blog"]>>]
    [] method = "generateFAQPageSchema" ->
         [faqEntries |-> <<CHOOSE entry \in FaqEntries : entry.question = "Q1">>]

SharedConfigs == {config \in SchemaConfigs : config.siteUrl = "https://e.com"}

SharedCall(caller) ==
  /\ pc[caller] = "ready"
  /\ LET call == Invoke(generator, op[caller], arg.calls[caller])
     IN  /\ generator' = call.this
         /\ ret' = [ret EXCEPT ![caller] = call.value]
  /\ pc' = [pc EXCEPT ![caller] = "done"]
  /\ UNCHANGED <<op, arg, cookies, mocks, activation>>

SharedInit ==
  /\ pc = [caller \in Callers |-> "ready"]
  /\ ret = [caller \in Callers |-> NoSchema]
  /\ cookies = NoCookies
  /\ mocks = MockDataset
  /\ activation = Null
  /\ op \in [Callers -> Methods]
  /\ \E config \in SharedConfigs :
       /\ generator = NewSchemaGenerator(config)
       /\ arg = [config |-> config, calls |-> [caller \in Callers |-> InputOf(op[caller])]]

SharedNext == \E caller \in Callers : SharedCall(caller)

SharedSpec == SharedInit /\ [][SharedNext]_vars

(***************************************************************************)
(* The page-level generator: class ContentTypeStructuredDataGenerator.  An *)
(* instance holds the configuration it was given (this.config) and a       *)
(* SchemaGenerator (this.schemaGenerator), and each public method returns  *)
(* the list of schemas of one kind of page.                                *)
(***************************************************************************)

\* the constructor: it keeps config, and builds the inner generator with
\* createSchemaGenerator(), that is from the environment and not from config
NewContentTypeStructuredDataGenerator(config, env) ==
  [config |-> config, schemaGenerator |-> createSchemaGenerator(env)]

\* the characters encodeURIComponent leaves as they are
IsUriUnreserved(c) == IsAlpha(c) \/ IsDigit(c) \/ c \in {"-", "_", ".", "!", "~", "*", "'", "(", ")"}

\* the escape of an ASCII character that is not unreserved
PercentEncoded(c) ==
  CASE c = " " -> "%20" [] c = "\"" -> "%22" [] c = "#" -> "%23" [] c = "%" -> "%25"
    [] c = "&" -> "%26" [] c = "+" -> "%2B" [] c = "/" -> "%2F" [] c = "=" -> "%3D"
    [] c = "?" -> "%3F" [] c = "<" -> "%3C" [] c = ">" -> "%3E"

RECURSIVE encodeURIComponent(_)
encodeURIComponent(s) ==
  IF s = "" THEN ""
  ELSE (IF IsUriUnreserved(CharAt(s, 1)) THEN CharAt(s, 1) ELSE PercentEncoded(CharAt(s, 1)))
       \o encodeURIComponent(SliceFrom(s, 1))

generateCourseSchema(this, guide, canonicalUrl) ==
  ("@context" :> "https://schema.org")
  @@ ("@type" :> "Course")
  @@ ("name" :> guide.title)
  @@ ("description" :> guide.description)
  @@ ("provider" :> (("@type" :> "Organization")
                     @@ ("name" :> this.config.organizationName)
                     @@ ("url" :> this.config.siteUrl)))
  @@ ("educationalLevel" :> guide.difficulty)
  @@ ("timeRequired" :> "PT" \o ToDecimal(guide.estimatedTime) \o "M")
  @@ ("courseCode" :> guide.slug)
  @@ ("url" :> canonicalUrl)
  @@ (IF Has(guide, "featuredImage")
      THEN ("image" :> ImageObject(guide.featuredImage, this.config.siteUrl))
      ELSE NoFields)

generateCollectionPageSchema(this, category, canonicalUrl, contentCounts) ==
  ("@context" :> "https://schema.org")
  @@ ("@type" :> "CollectionPage")
  @@ ("name" :> category.name)
  @@ ("description" :> category.description)
  @@ ("url" :> canonicalUrl)
  @@ ("mainEntity" :>
        (("@type" :> "ItemList")
         @@ ("name" :> category.name \o " Content")
         @@ ("description" :> "Collection of articles and guides about "
                              \o ToLowerCase(category.name))
         @@ (IF Has(contentCounts, "blogPosts")
             THEN ("numberOfItems" :> contentCounts.blogPosts + contentCounts.guides)
             ELSE NoFields)))
  @@ (IF Has(category, "featuredImage")
      THEN ("image" :> ImageObject(category.featuredImage, this.config.siteUrl))
      ELSE NoFields)

\* search is the optional arguments: query and resultCount, each there or not
generateSearchResultsPageSchema(this, search) ==
  ("@context" :> "https://schema.org")
  @@ ("@type" :> "SearchResultsPage")
  @@ ("name" :> IF TruthyStr(search, "query")
                THEN "Search results for \"" \o search.query \o "\"" ELSE "Search")
  @@ ("description" :> IF TruthyStr(search, "query")
                       THEN "Search results for \"" \o search.query \o "\" on "
                            \o this.config.siteName
                       ELSE "Search " \o this.config.siteName \o " for articles and guides")
  @@ ("url" :> this.config.siteUrl \o "/search"
               \o (IF TruthyStr(search, "query")
                   THEN "?q=" \o encodeURIComponent(search.query) ELSE ""))
  @@ (IF TruthyStr(search, "query")
      THEN ("mainEntity" :>
              (("@type" :> "SearchAction")
               @@ ("query" :> search.query)
               @@ (IF Has(search, "resultCount")
                   THEN ("resultCount" :> search.resultCount) ELSE NoFields)))
      ELSE NoFields)

\* page is the optional arguments: title and description, each there or not
generateWebPageSchema(this, canonicalUrl, page) ==
  ("@context" :> "https://schema.org")
  @@ ("@type" :> "WebPage")
  @@ ("name" :> IF TruthyStr(page, "title") THEN page.title ELSE this.config.siteName)
  @@ ("description" :> IF TruthyStr(page, "description") THEN page.description
                       ELSE "Content from " \o this.config.siteName)
  @@ ("url" :> canonicalUrl)
  @@ ("publisher" :> (("@type" :> "Organization")
                      @@ ("name" :> this.config.organizationName)
                      @@ ("url" :> this.config.siteUrl)))

generateBlogPostStructuredData(this, post, canonicalUrl, includeOrganization) ==
  <<generateBlogPostingSchema(this.schemaGenerator.config, post, canonicalUrl),
    generateBreadcrumbListSchema(this.schemaGenerator.config,
      <<[name |-> "Home", url |-> "/"], [name |-> "Blog", url |-> "/blog"],
        [name |-> post.title, url |-> "/blog/" \o post.slug]>>)>>
  \o (IF includeOrganization
      THEN <<generateOrganizationSchema(this.schemaGenerator.config)>> ELSE <<>>)

generateGuideStructuredData(this, guide, canonicalUrl, includeOrganization) ==
  <<generateHowToSchema(this.schemaGenerator.config, guide),
    generateBreadcrumbListSchema(this.schemaGenerator.config,
      <<[name |-> "Home", url |-> "/"], [name |-> "Guides", url |-> "/guides"],
        [name |-> guide.title, url |-> "/guides/" \o guide.slug]>>)>>
  \o (IF includeOrganization
      THEN <<generateOrganizationSchema(this.schemaGenerator.config)>> ELSE <<>>)
  \o (IF guide.difficulty # "" /\ guide.estimatedTime # 0
      THEN <<generateCourseSchema(this, guide, canonicalUrl)>> ELSE <<>>)

generateCategoryStructuredData(this, category, canonicalUrl, contentCounts) ==
  <<generateCollectionPageSchema(this, category, canonicalUrl, contentCounts),
    generateBreadcrumbListSchema(this.schemaGenerator.config,
      <<[name |-> "Home", url |-> "/"], [name |-> "Categories", url |-> "/categories"],
        [name |-> category.name, url |-> "/category/" \o category.slug]>>),
    generateOrganizationSchema(this.schemaGenerator.config)>>

generateFaqStructuredData(this, faqEntries, canonicalUrl) ==
  <<generateFAQPageSchema(this.schemaGenerator.config, faqEntries),
    generateBreadcrumbListSchema(this.schemaGenerator.config,
      <<[name |-> "Home", url |-> "/"], [name |-> "FAQ", url |-> "/faq"]>>),
    generateOrganizationSchema(this.schemaGenerator.config)>>

generateHomepageStructuredData(this) ==
  <<generateOrganizationSchema(this.schemaGenerator.config),
    generateWebSiteSchema(this.schemaGenerator.config)>>

generateSearchStructuredData(this, search) ==
  <<generateSearchResultsPageSchema(this, search),
    generateOrganizationSchema(this.schemaGenerator.config)>>

generateFallbackStructuredData(this, contentType, canonicalUrl, page) ==
  <<generateWebPageSchema(this, canonicalUrl, page),
    generateOrganizationSchema(this.schemaGenerator.config)>>

\* the configuration createContentTypeStructuredDataGenerator() builds; it
\* is written out again in that function, with the values of
\* createSchemaGenerator()
createContentTypeStructuredDataGenerator(env) ==
  NewContentTypeStructuredDataGenerator(
    [siteUrl |-> IF TruthyStr(env, "SITE_URL") THEN env.SITE_URL ELSE "http://localhost:4321",
     siteName |-> "Technical SEO CWV Astro Lab",
     organizationName |-> "Technical SEO Lab",
     logoUrl |-> IF TruthyStr(env, "SITE_URL") THEN env.SITE_URL \o "/images/logo.png"
                 ELSE "http://localhost:4321/images/logo.png",
     socialLinks |-> <<"https://github.com/technical-seo-lab",
                       "https://twitter.com/techseolab",
                       "https://linkedin.com/company/technical-seo-lab">>],
    env)

(* Inputs of the page-level generator. *)

\* the generators: those the factory builds, and those constructed directly
\* with a configuration of the caller's
ContentTypeGenerators ==
  {createContentTypeStructuredDataGenerator(env) : env \in Environments}
  \cup {NewContentTypeStructuredDataGenerator(config, env) :
          config \in SharedConfigs, env \in Environments}

PagePosts == {post \in BlogPosts : post.author.slug = "jo" /\ post.tags # <<>>
                                   /\ post.category.name = "SEO"}

PageGuides == {guide \in Guides : Len(guide.steps) = 1 /\ guide.tools # <<>>}

PageCategories ==
  Categories
  \cup {category @@ [f \in {"featuredImage"} |-> Asset("/c.png", [size |-> 1])] :
          category \in Categories}

ContentCounts == {NoFields, [blogPosts |-> 2, guides |-> 1]}

SearchArguments ==
  {query @@ count : query \in OptionalField("query", {"", "seo", "a b&c"}),
                    count \in OptionalField("resultCount", {0, 3})}

PageArguments ==
  {title @@ description : title \in OptionalField("title", {"", "Title"}),
                          description \in OptionalField("description", {"About"})}

ContentTypes == {"blog", "guide", "category", "faq", "homepage", "search"}

CallGenerateBlogPostStructuredData ==
  /\ pc = "ready"
  /\ op = "generateBlogPostStructuredData"
  /\ ret' = generateBlogPostStructuredData(generator, arg.post, arg.canonicalUrl,
                                           arg.includeOrganization)
  /\ pc' = "done"
  /\ UNCHANGED <<op, arg, generator, cookies, mocks, activation>>

CallGenerateGuideStructuredData ==
  /\ pc = "ready"
  /\ op = "generateGuideStructuredData"
  /\ ret' = generateGuideStructuredData(generator, arg.guide, arg.canonicalUrl,
                                        arg.includeOrganization)
  /\ pc' = "done"
  /\ UNCHANGED <<op, arg, generator, cookies, mocks, activation>>

CallGenerateCategoryStructuredData ==
  /\ pc = "ready"
  /\ op = "generateCategoryStructuredData"
  /\ ret' = generateCategoryStructuredData(generator, arg.category, arg.canonicalUrl,
                                           arg.contentCounts)
  /\ pc' = "done"
  /\ UNCHANGED <<op, arg, generator, cookies, mocks, activation>>

CallGenerateFaqStructuredData ==
  /\ pc = "ready"
  /\ op = "generateFaqStructuredData"
  /\ ret' = generateFaqStructuredData(generator, arg.faqEntries, arg.canonicalUrl)
  /\ pc' = "done"
  /\ UNCHANGED <<op, arg, generator, cookies, mocks, activation>>

CallGenerateHomepageStructuredData ==
  /\ pc = "ready"
  /\ op = "generateHomepageStructuredData"
  /\ ret' = generateHomepageStructuredData(generator)
  /\ pc' = "done"
  /\ UNCHANGED <<op, arg, generator, cookies, mocks, activation>>

CallGenerateSearchStructuredData ==
  /\ pc = "ready"
  /\ op = "generateSearchStructuredData"
  /\ ret' = generateSearchStructuredData(generator, arg.search)
  /\ pc' = "done"
  /\ UNCHANGED <<op, arg, generator, cookies, mocks, activation>>

CallGenerateFallbackStructuredData ==
  /\ pc = "ready"
  /\ op = "generateFallbackStructuredData"
  /\ ret' = generateFallbackStructuredData(generator, arg.contentType, arg.canonicalUrl,
                                           arg.page)
  /\ pc' = "done"
  /\ UNCHANGED <<op, arg, generator, cookies, mocks, activation>>

NoSchemas == <<>>

ContentTypeInit ==
  /\ pc = "ready"
  /\ ret = NoSchemas
  /\ generator \in ContentTypeGenerators
  /\ cookies = NoCookies
  /\ mocks = MockDataset
  /\ activation = Null
  /\ \/ /\ op = "generateBlogPostStructuredData"
        /\ arg \in [post : PagePosts, canonicalUrl : {"https://e.com/blog/post"},
                    includeOrganization : BOOLEAN]
     \/ /\ op = "generateGuideStructuredData"
        /\ arg \in [guide : PageGuides, canonicalUrl : {"https://e.com/guides/guide"},
                    includeOrganization : BOOLEAN]
     \/ /\ op = "generateCategoryStructuredData"
        /\ arg \in [category : PageCategories, canonicalUrl : {"https://e.com/category/seo"},
                    contentCounts : ContentCounts]
     \/ /\ op = "generateFaqStructuredData"
        /\ arg \in [faqEntries : ListsUpTo(FaqEntries, MaxCrumbs),
                    canonicalUrl : {"https://e.com/faq"}]
     \/ op = "generateHomepageStructuredData" /\ arg = NoFields
     \/ op = "generateSearchStructuredData" /\ arg \in [search : SearchArguments]
     \/ /\ op = "generateFallbackStructuredData"
        /\ arg \in [contentType : ContentTypes, canonicalUrl : {"https://e.com/x"},
                    page : PageArguments]

ContentTypeNext ==
  \/ CallGenerateBlogPostStructuredData
  \/ CallGenerateGuideStructuredData
  \/ CallGenerateCategoryStructuredData
  \/ CallGenerateFaqStructuredData
  \/ CallGenerateHomepageStructuredData
  \/ CallGenerateSearchStructuredData
  \/ CallGenerateFallbackStructuredData

ContentTypeSpec == ContentTypeInit /\ [][ContentTypeNext]_vars

(***************************************************************************)
(* The claims.                                                             *)
(***************************************************************************)
Returned(f) == pc = "done" /\ op = f

\* a url formatSitemapUrl takes for absolute
IsAbsoluteUrl(url) == StartsWith(url, "http://") \/ StartsWith(url, "https://")

\* C1, as stated: formatUrl is idempotent for every url and every base:
\* formatting the result again with the same base gives the result.
C1_IdempotentForEveryBase ==
  Returned("formatSitemapUrl") =>
    formatSitemapUrl(ret.value, arg.baseUrl) = ret.value

\* C1, amended: formatUrl is idempotent for every url and every base that
\* starts with http:// or https://.
C1_IdempotentForAbsoluteBase ==
  Returned("formatSitemapUrl") /\ IsAbsoluteUrl(arg.baseUrl) =>
    formatSitemapUrl(ret.value, arg.baseUrl) = ret.value

\* a relative url was joined to an absolute base, and formatting the result
\* again leaves it alone
C1_Witness ==
  /\ Returned("formatSitemapUrl")
  /\ arg.url = "/a" /\ arg.baseUrl = "https://e.com/"
  /\ ret.value = "https://e.com/a"
  /\ formatSitemapUrl(ret.value, arg.baseUrl) = "https://e.com/a"

\* the base without one trailing slash
NormalizedBase(b) == IF EndsWith(b, "/") THEN SubSeq(b, 1, Len(b) - 1) ELSE b

\* the position of the colon that ends the scheme of s (letters, then "://"); 0 if s has none
SchemeColon(s) ==
  LET i == IndexOf(s, "://")
  IN  IF i > 1 /\ (\A c \in Chars(SubSeq(s, 1, i - 1)) : IsAlpha(c)) THEN i ELSE 0

\* s holds no "//" other than the one directly after its scheme
OnlySchemeDoubleSlash(s) ==
  \A i \in 1..Len(s) : OccursAt(s, "//", i) => SchemeColon(s) > 0 /\ i = SchemeColon(s) + 1

C3_AbsoluteUrlUnchanged ==
  Returned("formatSitemapUrl") /\ IsAbsoluteUrl(arg.url) => ret.value = arg.url

\* an absolute url was formatted against a base on another origin
C3_Witness ==
  /\ Returned("formatSitemapUrl")
  /\ arg.url = "https://a/a" /\ arg.baseUrl = "http://e.com/"
  /\ ret.value = "https://a/a"

\* C4: validateUrl is total: it returns a boolean and never throws; it returns
\* true exactly when the input parses as a URL whose scheme is http or https,
\* and false for malformed input and for every other scheme, ftp included.
C4_ValidateIsTotal ==
  Returned("validateSitemapUrl") =>
    /\ ~ret.threw
    /\ ret.value \in BOOLEAN
    /\ ret.value = (ParseUrl(arg.url).ok /\ ParseUrl(arg.url).protocol \in {"http:", "https:"})
    /\ arg.url \in {"ftp://example.com", "not-a-url"} => ret.value = FALSE
    /\ arg.url \in {"https://example.com/page", "http://example.com/page"} => ret.value = TRUE

\* the parser rejected the input and validateUrl answered false
C4_Witness ==
  /\ Returned("validateSitemapUrl")
  /\ arg.url = "http://x y"
  /\ ~ParseUrl(arg.url).ok
  /\ ret = [threw |-> FALSE, value |-> FALSE]

\* s has the shape YYYY-MM-DDTHH:mm:ss.sssZ
IsCanonicalIso(s) ==
  /\ Len(s) = 24
  /\ \A i \in 1..24 :
       CASE i \in {5, 8} -> CharAt(s, i) = "-"
         [] i = 11 -> CharAt(s, i) = "T"
         [] i \in {14, 17} -> CharAt(s, i) = ":"
         [] i = 20 -> CharAt(s, i) = "."
         [] i = 24 -> CharAt(s, i) = "Z"
         [] OTHER -> IsDigit(CharAt(s, i))

\* the Date formatSitemapTimestamp was given, or made of the string it was given
TimestampDate(timestamp) ==
  IF timestamp.isString THEN DateParse(timestamp.str) ELSE timestamp.date

CountOccurrences(s, p) == Cardinality({i \in 1..Len(s) : OccursAt(s, p, i)})

\* the contents of the <tag>...</tag> elements of doc, in document order
RECURSIVE ElementsFrom(_, _, _)
ElementsFrom(doc, tag, from) ==
  LET open == "<" \o tag \o ">"
      close == "</" \o tag \o ">"
      i == IndexOfFrom(doc, open, from)
      j == IF i = 0 THEN 0 ELSE IndexOfFrom(doc, close, i + Len(open))
  IN  IF i = 0 \/ j = 0 THEN <<>>
      ELSE <<SubSeq(doc, i + Len(open), j - 1)>> \o ElementsFrom(doc, tag, j + Len(close))

Elements(doc, tag) == ElementsFrom(doc, tag, 1)

XmlEntities == {"&amp;", "&lt;", "&gt;", "&quot;", "&apos;"}

\* character data: no markup, and every ampersand starts one of the five entities
IsCharacterData(text) ==
  /\ ~Includes(text, "<")
  /\ \A i \in 1..Len(text) :
       CharAt(text, i) = "&" => \E e \in XmlEntities : OccursAt(text, e, i)

\* the text that character data stands for
RECURSIVE XmlUnescape(_)
XmlUnescape(text) ==
  IF text = "" THEN ""
  ELSE IF StartsWith(text, "&amp;") THEN "&" \o XmlUnescape(SliceFrom(text, 5))
  ELSE IF StartsWith(text, "&lt;") THEN "<" \o XmlUnescape(SliceFrom(text, 4))
  ELSE IF StartsWith(text, "&gt;") THEN ">" \o XmlUnescape(SliceFrom(text, 4))
  ELSE IF StartsWith(text, "&quot;") THEN "\"" \o XmlUnescape(SliceFrom(text, 6))
  ELSE IF StartsWith(text, "&apos;") THEN "'" \o XmlUnescape(SliceFrom(text, 6))
  ELSE Head(text) \o XmlUnescape(Tail(text))

\* the fragment has one child element `tag`, whose text stands for `value`
HasChild(fragment, tag, value) ==
  /\ CountOccurrences(fragment, "<" \o tag \o ">") = 1
  /\ Len(Elements(fragment, tag)) = 1
  /\ IsCharacterData(Elements(fragment, tag)[1])
  /\ XmlUnescape(Elements(fragment, tag)[1]) = value

HasNoChild(fragment, tag) == ~Includes(fragment, "<" \o tag)

\* the one <url> element of the fragment, with its one <loc>
OneUrlWithLoc(fragment, url) ==
  /\ CountOccurrences(fragment, "<url>") = 1
  /\ Len(Elements(fragment, "url")) = 1
  /\ HasChild(Elements(fragment, "url")[1], "loc", url)

\* C6, as stated: renderSitemapEntry emits one <loc> inside one <url>, and each
\* of <lastmod>, <changefreq>, <priority> exactly when the field is present on
\* the entry, a priority of 0 and an empty lastmod included.
C6_OptionalFieldsWhenPresent ==
  Returned("generateSitemapEntry") =>
    /\ OneUrlWithLoc(ret.value, arg.entry.url)
    /\ Has(arg.entry, "lastmod") <=> ~HasNoChild(ret.value, "lastmod")
    /\ Has(arg.entry, "changefreq") <=> ~HasNoChild(ret.value, "changefreq")
    /\ Has(arg.entry, "priority") <=> ~HasNoChild(ret.value, "priority")

\* C6, amended: renderSitemapEntry emits one <loc> inside one <url>; <lastmod>
\* exactly when the entry has a lastmod that is not the empty string,
\* <changefreq> exactly when it has a changefreq, and <priority> exactly when
\* it has a priority, a priority of 0 included.
C6_OptionalFieldsWhenNonEmpty ==
  Returned("generateSitemapEntry") =>
    /\ OneUrlWithLoc(ret.value, arg.entry.url)
    /\ IF Has(arg.entry, "lastmod") /\ arg.entry.lastmod # ""
       THEN HasChild(ret.value, "lastmod", arg.entry.lastmod)
       ELSE HasNoChild(ret.value, "lastmod")
    /\ IF Has(arg.entry, "changefreq")
       THEN HasChild(ret.value, "changefreq", arg.entry.changefreq)
       ELSE HasNoChild(ret.value, "changefreq")
    /\ IF Has(arg.entry, "priority")
       THEN HasChild(ret.value, "priority", toFixed1(arg.entry.priority))
       ELSE HasNoChild(ret.value, "priority")

\* an entry with a priority of 0 and no other optional field was rendered
C6_Witness ==
  /\ Returned("generateSitemapEntry")
  /\ DOMAIN arg.entry = {"url", "priority"} /\ arg.entry.priority = 0
  /\ Includes(ret.value, "<priority>0.0</priority>")
  /\ HasNoChild(ret.value, "lastmod") /\ HasNoChild(ret.value, "changefreq")

\* C7: round trip: for every list of N >= 0 entries, urls with & < > " '
\* included, renderSitemap produces a document with N <url> elements, in input
\* order, whose <loc> text unescapes to the url of the corresponding entry.
C7_SitemapRoundTrip ==
  Returned("generateSitemapXml") =>
    LET urls == Elements(ret.value, "url")
    IN  /\ Len(urls) = Len(arg.entries)
        /\ CountOccurrences(ret.value, "<url>") = Len(arg.entries)
        /\ \A i \in 1..Len(urls) : HasChild(urls[i], "loc", arg.entries[i].url)

\* two entries whose urls hold special characters were rendered and read back
C7_Witness ==
  /\ Returned("generateSitemapXml")
  /\ Len(arg.entries) = 2
  /\ arg.entries[1].url = "https://e.com/'\"&amp;"
  /\ arg.entries[2].url = "https://e.com/b?x=1&y=<2>"
  /\ Includes(ret.value, "<loc>https://e.com/b?x=1&amp;y=&lt;2&gt;</loc>")
  /\ XmlUnescape(Elements(Elements(ret.value, "url")[1], "loc")[1]) = arg.entries[1].url

\* C8: renderSitemap([]) is the XML declaration, the opening <urlset> with the
\* sitemap namespace and the closing </urlset>, with no <url>; and no output
\* is empty or lacks the root element.
C8_EmptySitemapIsComplete ==
  Returned("generateSitemapXml") =>
    /\ StartsWith(ret.value, "<?xml version=\"1.0\" encoding=\"UTF-8\"?>\n<urlset xmlns=\"http://www.sitemaps.org/schemas/sitemap/0.9\">\n")
    /\ EndsWith(ret.value, "</urlset>\n")
    /\ CountOccurrences(ret.value, "<urlset") = 1
    /\ CountOccurrences(ret.value, "</urlset>") = 1
    /\ arg.entries = <<>> =>
         /\ ret.value = "<?xml version=\"1.0\" encoding=\"UTF-8\"?>\n<urlset xmlns=\"http://www.sitemaps.org/schemas/sitemap/0.9\">\n</urlset>\n"
         /\ ~Includes(ret.value, "<url>")

\* the empty list was rendered
C8_Witness ==
  /\ Returned("generateSitemapXml")
  /\ arg.entries = <<>>
  /\ Includes(ret.value, "<urlset") /\ Includes(ret.value, "</urlset>")

\* C9: renderSitemapIndex has the root element sitemapindex and one <sitemap>
\* element per entry, in input order, each with an escaped <loc>, and with an
\* escaped <lastmod> only when the entry has a lastmod (and whenever it has a
\* non-empty one).
C9_SitemapIndexRules ==
  Returned("generateSitemapIndexXml") =>
    LET sitemaps == Elements(ret.value, "sitemap")
    IN  /\ StartsWith(ret.value, "<?xml version=\"1.0\" encoding=\"UTF-8\"?>\n<sitemapindex xmlns=\"http://www.sitemaps.org/schemas/sitemap/0.9\">\n")
        /\ EndsWith(ret.value, "</sitemapindex>\n")
        /\ Len(sitemaps) = Len(arg.entries)
        /\ CountOccurrences(ret.value, "<sitemap>") = Len(arg.entries)
        /\ \A i \in 1..Len(sitemaps) :
             /\ HasChild(sitemaps[i], "loc", arg.entries[i].sitemap)
             /\ ~HasNoChild(sitemaps[i], "lastmod") =>
                  /\ Has(arg.entries[i], "lastmod")
                  /\ HasChild(sitemaps[i], "lastmod", arg.entries[i].lastmod)
             /\ Has(arg.entries[i], "lastmod") /\ arg.entries[i].lastmod # "" =>
                  ~HasNoChild(sitemaps[i], "lastmod")

\* an index of two sitemaps, the first with a lastmod to escape and the second
\* with none, was rendered
C9_Witness ==
  /\ Returned("generateSitemapIndexXml")
  /\ Len(arg.entries) = 2
  /\ Has(arg.entries[1], "lastmod") /\ arg.entries[1].lastmod = "&<"
  /\ ~Has(arg.entries[2], "lastmod")
  /\ arg.entries[1].sitemap = "https://e.com/b?x=1&y=<2>"
  /\ Includes(ret.value, "<lastmod>&amp;&lt;</lastmod>")
  /\ CountOccurrences(ret.value, "<lastmod>") = 1

\* the path of an absolute url: from the first slash after the authority up
\* to the query or the fragment
UrlPath(url) ==
  LET afterScheme == SliceFrom(url, IndexOf(url, "://") + 2)
      authority == TakeUntil(afterScheme, {"/", "?", "#"})
  IN  TakeUntil(SliceFrom(afterScheme, Len(authority)), {"?", "#"})

PathIsExcluded(url) == \E pattern \in excludePatterns : Includes(UrlPath(url), pattern)

\* C10, as stated: isSitemapEligible is false for every url whose path holds
\* one of /preview/, /search, /api/, /_, /admin and true for every url whose
\* path holds none of them; it never throws.
C10_EligibleByPath ==
  Returned("shouldIncludeInSitemap") =>
    /\ ~ret.threw
    /\ ret.value = ~PathIsExcluded(arg.url)

(***************************************************************************)
(* Claims about the sitemap page routines.                                 *)
(***************************************************************************)

SitemapRoutines == {"GET sitemap-pages.xml", "GET sitemap-blog.xml", "GET sitemap-guides.xml"}

Answered == pc = "done" /\ op \in SitemapRoutines

\* the absolute urls of everything the answered routine has to consider
RoutineUrls ==
  LET baseUrl == getSitemapBaseUrl(arg.env)
      prefix == IF op = "GET sitemap-pages.xml" THEN "/category/"
                ELSE IF op = "GET sitemap-blog.xml" THEN "/blog/" ELSE "/guides/"
      records == [i \in 1..Len(arg.content.value) |->
                    formatSitemapUrl(prefix \o arg.content.value[i].slug, baseUrl)]
  IN  IF op = "GET sitemap-pages.xml"
      THEN <<formatSitemapUrl("/", baseUrl), formatSitemapUrl("/faq", baseUrl)>> \o records
      ELSE records

\* the urls of the full entry list: those the exclusion filter keeps
FullEntryList == SelectSeq(RoutineUrls, LAMBDA url : shouldIncludeInSitemap(url))

\* something is thrown during generation: the fetch is rejected, or a record
\* that is to be listed has a timestamp that is not a date
GenerationThrows ==
  \/ arg.content.threw
  \/ /\ op # "GET sitemap-pages.xml"
     /\ \E i \in 1..Len(arg.content.value) :
          /\ shouldIncludeInSitemap(RoutineUrls[i])
          /\ DateParse(arg.content.value[i].sys.updatedAt).nan

\* the body is a complete urlset document whose <url> elements stand for `urls`
IsSitemapOf(body, urls) ==
  /\ StartsWith(body, "<?xml version=\"1.0\" encoding=\"UTF-8\"?>\n<urlset xmlns=\"http://www.sitemaps.org/schemas/sitemap/0.9\">\n")
  /\ EndsWith(body, "</urlset>\n")
  /\ CountOccurrences(body, "<urlset") = 1
  /\ CountOccurrences(body, "<url>") = Len(urls)
  /\ Len(Elements(body, "url")) = Len(urls)
  /\ \A i \in 1..Len(urls) : HasChild(Elements(body, "url")[i], "loc", urls[i])

\* C11: every sitemap page routine answers 200 with a well-formed sitemap in
\* one of two shapes: the full entry list with max-age=3600 when generation
\* succeeds, and the fallback document (homepage only for pages, an empty
\* urlset for blog and guides) with max-age=300 when the fetch or a timestamp
\* throws; never a partial list, never an empty body.
C11_TwoShapes ==
  Answered =>
    /\ ret.status = 200
    /\ ret.headers.ContentType = "application/xml; charset=utf-8"
    /\ ret.body # ""
    /\ IF GenerationThrows
       THEN /\ ret.headers.CacheControl = "public, max-age=300"
            /\ IsSitemapOf(ret.body,
                           IF op = "GET sitemap-pages.xml"
                           THEN <<formatSitemapUrl("/", getSitemapBaseUrl(arg.env))>>
                           ELSE <<>>)
       ELSE /\ ret.headers.CacheControl = "public, max-age=3600"
            /\ IsSitemapOf(ret.body, FullEntryList)

\* the blog routine met a second record with a bad timestamp after a good
\* first one, and answered with the empty fallback
C11_Witness ==
  /\ Answered
  /\ op = "GET sitemap-blog.xml"
  /\ ~arg.content.threw
  /\ Len(arg.content.value) = 2
  /\ arg.content.value[1].sys.updatedAt = "2024-01-15T10:00:00.000Z"
  /\ arg.content.value[1].slug = "a"
  /\ arg.content.value[2].sys.updatedAt = "invalid-date"
  /\ arg.content.value[2].slug = "b&c"
  /\ ret.headers.CacheControl = "public, max-age=300"
  /\ ~Includes(ret.body, "<url>")

(***************************************************************************)
(* Claims about the schema generator.                                      *)
(***************************************************************************)

\* the optional key, when the object has it, holds a non-empty string
NonEmptyString(object, key) == Has(object, key) => object[key] # ""

\* the optional key, when the object has it, holds a non-empty array
NonEmptyArray(object, key) == Has(object, key) => Len(object[key]) > 0

\* the optional image, when the object has it, is an ImageObject
IsImageObject(object, key) ==
  Has(object, key) => Has(object[key], "url") /\ object[key]["@type"] = "ImageObject"

\* C12: in every object returned by organizationSchema, blogPostingSchema and
\* howToSchema, each optional key (logo, sameAs, author.url, image, width,
\* height, articleSection, keywords, totalTime, tool, a step's image) is
\* either absent or holds a non-empty value, also for inputs whose source
\* strings are empty.
C12_NoEmptyOptionalKey ==
  /\ Returned("generateOrganizationSchema") =>
       /\ Has(ret, "logo") => NonEmptyString(ret.logo, "url") /\ Has(ret.logo, "url")
       /\ NonEmptyArray(ret, "sameAs")
  /\ Returned("generateBlogPostingSchema") =>
       /\ NonEmptyString(ret.author, "url")
       /\ IsImageObject(ret, "image")
       /\ Has(ret, "image") => (Has(ret.image, "width") <=> Has(ret.image, "height"))
       /\ NonEmptyString(ret, "articleSection")
       /\ NonEmptyArray(ret, "keywords")
  /\ Returned("generateHowToSchema") =>
       /\ IsImageObject(ret, "image")
       /\ NonEmptyString(ret, "totalTime")
       /\ NonEmptyArray(ret, "tool")
       /\ \A i \in 1..Len(ret.step) : IsImageObject(ret.step[i], "image")

EmittedUrls ==
  IF Returned("generateBlogPostingSchema")
  THEN IF Has(arg.post, "featuredImage")
       THEN {<<arg.post.featuredImage.fields.file.url, ret.image.url>>} ELSE {}
  ELSE IF Returned("generateHowToSchema")
  THEN (IF Has(arg.guide, "featuredImage")
        THEN {<<arg.guide.featuredImage.fields.file.url, ret.image.url>>} ELSE {})
       \cup {<<arg.guide.steps[i].image.fields.file.url, ret.step[i].image.url>> :
               i \in {j \in 1..Len(arg.guide.steps) : Has(arg.guide.steps[j], "image")}}
  ELSE IF Returned("generateBreadcrumbListSchema")
  THEN {<<arg.breadcrumbs[i].url, ret.itemListElement[i].item>> :
          i \in 1..Len(arg.breadcrumbs)}
  ELSE {}

\* the emitted url is the source url when that starts with 'http', and the
\* site url followed by the source url otherwise
FollowsUrlRule(source, emitted) ==
  emitted = IF StartsWith(source, "http") THEN source ELSE generator.config.siteUrl \o source

\* every image and every breadcrumb item of the input has its emitted url
AllUrlsEmitted ==
  /\ Returned("generateBlogPostingSchema") =>
       (Has(ret, "image") <=> Has(arg.post, "featuredImage"))
  /\ Returned("generateHowToSchema") =>
       /\ Has(ret, "image") <=> Has(arg.guide, "featuredImage")
       /\ Len(ret.step) = Len(arg.guide.steps)
       /\ \A i \in 1..Len(ret.step) :
            Has(ret.step[i], "image") <=> Has(arg.guide.steps[i], "image")
  /\ Returned("generateBreadcrumbListSchema") =>
       Len(ret.itemListElement) = Len(arg.breadcrumbs)

\* C15, as stated: every emitted url (BlogPosting image, HowTo image,
\* HowToStep image, BreadcrumbList item) is the source url when that starts
\* with 'http' and siteUrl followed by the source url otherwise; so with an
\* absolute siteUrl every emitted url is absolute.
C15_EveryEmittedUrlAbsolute ==
  /\ AllUrlsEmitted
  /\ \A pair \in EmittedUrls :
       /\ FollowsUrlRule(pair[1], pair[2])
       /\ IsAbsoluteUrl(generator.config.siteUrl) => IsAbsoluteUrl(pair[2])

\* C15, amended: the rule as stated; and with an absolute siteUrl the emitted
\* url is absolute whenever the source url is itself an http:// or https://
\* url or does not start with 'http'.  A relative source that begins with the
\* letters http is emitted as it is.
C15_EmittedUrlFollowsRule ==
  /\ AllUrlsEmitted
  /\ \A pair \in EmittedUrls :
       /\ FollowsUrlRule(pair[1], pair[2])
       /\ (/\ IsAbsoluteUrl(generator.config.siteUrl)
           /\ IsAbsoluteUrl(pair[1]) \/ ~StartsWith(pair[1], "http"))
          => IsAbsoluteUrl(pair[2])

\* a breadcrumb trail with a relative and an absolute url was given to a
\* generator whose site url is absolute
C15_Witness ==
  /\ Returned("generateBreadcrumbListSchema")
  /\ generator.config.siteUrl = "https://e.com"
  /\ Len(arg.breadcrumbs) = 2
  /\ arg.breadcrumbs[1].url = "/blog"
  /\ arg.breadcrumbs[2].url = "https://e.com/x"
  /\ ret.itemListElement[1].item = "https://e.com/blog"
  /\ ret.itemListElement[2].item = "https://e.com/x"

\* C16: breadcrumbListSchema keeps the caller's order and numbers from 1: the
\* list has one element per breadcrumb, the element at (1-based) place i has
\* position i and the name of the i-th breadcrumb; nothing is sorted or
\* dropped as a duplicate.
C16_BreadcrumbOrder ==
  Returned("generateBreadcrumbListSchema") =>
    /\ Len(ret.itemListElement) = Len(arg.breadcrumbs)
    /\ \A i \in 1..Len(arg.breadcrumbs) :
         /\ ret.itemListElement[i]["@type"] = "ListItem"
         /\ ret.itemListElement[i].position = i
         /\ ret.itemListElement[i].name = arg.breadcrumbs[i].name

\* the same breadcrumb was given twice, and came back at positions 1 and 2
C16_Witness ==
  /\ Returned("generateBreadcrumbListSchema")
  /\ Len(arg.breadcrumbs) = 2
  /\ arg.breadcrumbs[1] = [name |-> "Home", url |-> "/"]
  /\ arg.breadcrumbs[2] = arg.breadcrumbs[1]
  /\ ret.itemListElement[1].position = 1
  /\ ret.itemListElement[2].position = 2
  /\ ret.itemListElement[2].name = "Home"

\* C17: howToSchema emits one HowToStep per step of the guide, in order, with
\* the step's title as name and its content as text.
C17_OneStepPerGuideStep ==
  Returned("generateHowToSchema") =>
    /\ Len(ret.step) = Len(arg.guide.steps)
    /\ \A i \in 1..Len(arg.guide.steps) :
         /\ ret.step[i]["@type"] = "HowToStep"
         /\ ret.step[i].name = arg.guide.steps[i].title
         /\ ret.step[i].text = arg.guide.steps[i].content

\* a guide of two steps, the first with an image and the second without and
\* with empty content, was rendered
C17_Witness ==
  /\ Returned("generateHowToSchema")
  /\ Len(arg.guide.steps) = 2
  /\ Has(arg.guide.steps[1], "image")
  /\ arg.guide.steps[1].title = "Measure"
  /\ arg.guide.steps[2] = [title |-> "Fix", content |-> ""]
  /\ ret.step[1].name = "Measure"
  /\ ret.step[2].name = "Fix" /\ ret.step[2].text = ""

\* the minutes that an ISO 8601 duration of the form PT<digits>M states, and
\* -1 for any other text
DurationMinutes(duration) ==
  IF /\ Len(duration) >= 4
     /\ StartsWith(duration, "PT")
     /\ EndsWith(duration, "M")
     /\ \A c \in Chars(SubSeq(duration, 3, Len(duration) - 1)) : IsDigit(c)
  THEN DigitsValue(SubSeq(duration, 3, Len(duration) - 1), 0)
  ELSE -1

\* C18: howToSchema emits totalTime, as PT<estimatedTime>M, exactly when the
\* guide's estimatedTime is truthy: for every estimatedTime above 0, and not
\* for 0.
C18_TotalTimeWhenTruthy ==
  Returned("generateHowToSchema") =>
    /\ arg.guide.estimatedTime > 0 =>
         /\ Has(ret, "totalTime")
         /\ DurationMinutes(ret.totalTime) = arg.guide.estimatedTime
         /\ Len(ret.totalTime) = 3 + Len(ToDecimal(arg.guide.estimatedTime))
    /\ arg.guide.estimatedTime = 0 => ~Has(ret, "totalTime")

\* a guide of 120 minutes was rendered with PT120M
C18_Witness ==
  /\ Returned("generateHowToSchema")
  /\ arg.guide.estimatedTime = 120
  /\ Has(ret, "totalTime")
  /\ ret.totalTime = "PT120M"

\* C19: blogPostingSchema copies the required fields: headline is the title,
\* description the excerpt, author.name the author's name, datePublished the
\* publication date, dateModified the record's system updatedAt,
\* mainEntityOfPage['@id'] the canonical url, and publisher is what
\* organizationSchema() returns.
C19_RequiredFieldsCopied ==
  Returned("generateBlogPostingSchema") =>
    /\ ret["@type"] = "BlogPosting"
    /\ ret.headline = arg.post.title
    /\ ret.description = arg.post.excerpt
    /\ ret.author.name = arg.post.author.name
    /\ ret.datePublished = arg.post.publishedAt
    /\ ret.dateModified = arg.post.sys.updatedAt
    /\ ret.mainEntityOfPage["@id"] = arg.canonicalUrl
    /\ ret.publisher = generateOrganizationSchema(generator.config)

\* a post modified after its publication was rendered by a generator whose
\* organization has a logo
C19_Witness ==
  /\ Returned("generateBlogPostingSchema")
  /\ arg.post.publishedAt = "2024-01-15T10:00:00.000Z"
  /\ arg.post.sys.updatedAt = "2024-01-20T15:30:00.000Z"
  /\ ret.dateModified = "2024-01-20T15:30:00.000Z"
  /\ arg.canonicalUrl = "https://e.com/blog/post"
  /\ Has(ret.publisher, "logo")
  /\ ret.publisher.name = "Acme"

\* C20: blogPostingSchema emits keywords, equal to the post's tags, exactly
\* when the post has at least one tag.
C20_KeywordsWhenTagged ==
  Returned("generateBlogPostingSchema") =>
    IF Len(arg.post.tags) > 0
    THEN Has(ret, "keywords") /\ ret.keywords = arg.post.tags
    ELSE ~Has(ret, "keywords")

\* a post with two tags was rendered, and its keywords are those tags
C20_Witness ==
  /\ Returned("generateBlogPostingSchema")
  /\ arg.post.tags = <<"seo", "cwv">>
  /\ Has(ret, "keywords")
  /\ ret.keywords = <<"seo", "cwv">>

(***************************************************************************)
(* Claims about the page-level generator.                                  *)
(***************************************************************************)

PageMethods ==
  {"generateBlogPostStructuredData", "generateGuideStructuredData",
   "generateCategoryStructuredData", "generateFaqStructuredData",
   "generateHomepageStructuredData", "generateSearchStructuredData",
   "generateFallbackStructuredData"}

\* the organization object names the configuration's organization and site
IsOrganizationOf(organization, config) ==
  /\ organization["@type"] = "Organization"
  /\ organization.name = config.organizationName
  /\ organization.url = config.siteUrl

\* the site-wide identity fields of the schema are those of the configuration
UsesConfiguration(schema, config) ==
  /\ schema["@type"] = "Organization" => IsOrganizationOf(schema, config)
  /\ schema["@type"] = "WebSite" => schema.url = config.siteUrl
  /\ schema["@type"] \in {"BlogPosting", "WebPage"} => IsOrganizationOf(schema.publisher, config)
  /\ schema["@type"] = "Course" => IsOrganizationOf(schema.provider, config)
  /\ schema["@type"] = "BreadcrumbList" =>
       \A i \in 1..Len(schema.itemListElement) :
         StartsWith(schema.itemListElement[i].item, config.siteUrl \o "/")

\* C14: every schema that a structured-data generator built with
\* configuration C returns for a page uses the siteUrl and the
\* organizationName of C.
C14_SingleConfiguration ==
  (pc = "done" /\ op \in PageMethods) =>
    \A i \in 1..Len(ret) : UsesConfiguration(ret[i], generator.config)

(***************************************************************************)
(* Further claims about the schema generator.                              *)
(***************************************************************************)

\* C21: faqPageSchema keeps the input order and does not sort: mainEntity has
\* one Question per entry, the i-th with the i-th entry's question as name
\* and its answer as the accepted answer's text, whatever the order fields.
C21_FaqOrderPreserved ==
  Returned("generateFAQPageSchema") =>
    /\ ret["@type"] = "FAQPage"
    /\ Len(ret.mainEntity) = Len(arg.faqEntries)
    /\ \A i \in 1..Len(arg.faqEntries) :
         /\ ret.mainEntity[i]["@type"] = "Question"
         /\ ret.mainEntity[i].name = arg.faqEntries[i].question
         /\ ret.mainEntity[i].acceptedAnswer.text = arg.faqEntries[i].answer

\* two entries were given with descending order fields, and came back as given
C21_Witness ==
  /\ Returned("generateFAQPageSchema")
  /\ Len(arg.faqEntries) = 2
  /\ arg.faqEntries[1].order = 2 /\ arg.faqEntries[1].question = "Q1"
  /\ arg.faqEntries[2].order = 1 /\ arg.faqEntries[2].question = "Q2"
  /\ ret.mainEntity[1].name = "Q1"
  /\ ret.mainEntity[2].name = "Q2"

(***************************************************************************)
(* Claims about the sitemap index and the base url.                        *)
(***************************************************************************)

\* the names of the three content sitemaps, in the order of the index
ContentSitemaps == <<"sitemap-pages.xml", "sitemap-blog.xml", "sitemap-guides.xml">>

\* C22: the sitemap index is answered with status 200 and Content-Type
\* application/xml; charset=utf-8, and its document has exactly three
\* <sitemap> elements, whose <loc> are the absolute urls of sitemap-pages.xml,
\* sitemap-blog.xml and sitemap-guides.xml under the base url, in that order.
C22_IndexReferencesThreeSitemaps ==
  Returned("GET sitemap-index.xml") =>
    LET base == NormalizedBase(getSitemapBaseUrl(arg.env))
        sitemaps == Elements(ret.body, "sitemap")
    IN  /\ ret.status = 200
        /\ ret.headers.ContentType = "application/xml; charset=utf-8"
        /\ StartsWith(ret.body, XmlDeclaration \o "<sitemapindex xmlns=\"http://www.sitemaps.org/schemas/sitemap/0.9\">\n")
        /\ EndsWith(ret.body, "</sitemapindex>\n")
        /\ CountOccurrences(ret.body, "<sitemap>") = 3
        /\ Len(sitemaps) = 3
        /\ \A i \in 1..3 :
             /\ HasChild(sitemaps[i], "loc", base \o "/" \o ContentSitemaps[i])
             /\ IsAbsoluteUrl(base \o "/" \o ContentSitemaps[i])

C22_Witness ==
  /\ Returned("GET sitemap-index.xml")
  /\ Has(arg.env, "SITE_URL") /\ arg.env.SITE_URL = "https://e.com/"
  /\ Elements(ret.body, "loc") = <<"https://e.com/sitemap-pages.xml",
                                   "https://e.com/sitemap-blog.xml",
                                   "https://e.com/sitemap-guides.xml">>

\* C23: a call of getSitemapBaseUrl returns the configured site origin when
\* SITE_URL is set and not empty and http://localhost:4321 otherwise, and it
\* leaves the environment as it was.
C23_BaseUrlOrFallback ==
  [][(pc = "ready" /\ op = "getSitemapBaseUrl") =>
       /\ arg' = arg
       /\ generator' = generator
       /\ ~ret'.threw
       /\ ret'.value = IF Has(arg.env, "SITE_URL") /\ arg.env.SITE_URL # ""
                       THEN arg.env.SITE_URL ELSE "http://localhost:4321"]_vars

C23_Witness ==
  /\ Returned("getSitemapBaseUrl")
  /\ Has(arg.env, "SITE_URL") /\ arg.env.SITE_URL = ""
  /\ ret.value = "http://localhost:4321"

(***************************************************************************)
(* Claims about the content service.                                       *)
(***************************************************************************)

\* the credential is configured: set and not empty
Configured(env, name) == Has(env, name) /\ env[name] # ""

\* C24: createContentService never throws and never returns null; it returns
\* the Contentful-backed service exactly when the space id, the delivery
\* token and the preview token are all configured, and the mock service in
\* every other case.
C24_ModeSelection ==
  Returned("createContentService") =>
    /\ ~ret.threw
    /\ ret.value.class \in {"ContentfulService", "MockContentfulService"}
    /\ ret.value.class = "ContentfulService" <=>
         /\ Configured(arg.env, "CONTENTFUL_SPACE_ID")
         /\ Configured(arg.env, "CONTENTFUL_DELIVERY_TOKEN")
         /\ Configured(arg.env, "CONTENTFUL_PREVIEW_TOKEN")

\* the mock service is returned because only the preview token is empty
C24_Witness ==
  /\ Returned("createContentService")
  /\ Configured(arg.env, "CONTENTFUL_SPACE_ID")
  /\ Configured(arg.env, "CONTENTFUL_DELIVERY_TOKEN")
  /\ Has(arg.env, "CONTENTFUL_PREVIEW_TOKEN") /\ arg.env.CONTENTFUL_PREVIEW_TOKEN = ""
  /\ ret.value.class = "MockContentfulService"

(***************************************************************************)
(* Claims about the preview endpoint.                                      *)
(***************************************************************************)

PreviewCookies == {"preview", "preview-meta"}

\* the step gives the cookie a value it did not have
IsSet(name) == Has(cookies', name) /\ (Has(cookies, name) => cookies'[name] # cookies[name])

\* the request names a content type the endpoint can read
HasSupportedContentType(request) ==
  /\ Has(request.headers, "content-type")
  /\ \/ Includes(request.headers["content-type"], "application/json")
     \/ Includes(request.headers["content-type"], "application/x-www-form-urlencoded")

\* the content type of the body: blog, guide, or none given
HasPreviewableType(fields) ==
  ~Has(fields, "contentType") \/ fields.contentType \in {"", "blog", "guide"}

\* C25: in any sequence of requests, a step sets the preview or the
\* preview-meta cookie only if it is a POST with a supported content type, a
\* non-empty slug, the expected secret and a content type that is blog, guide
\* or not given; and a POST answered 400 or 401 leaves the cookies as they were.
C25_CookiesOnlyWithSecret ==
  [][/\ (\E name \in PreviewCookies : IsSet(name)) =>
          /\ op' = "POST"
          /\ HasSupportedContentType(arg'.request)
          /\ arg'.request.body.readable
          /\ Has(arg'.request.body.fields, "slug") /\ arg'.request.body.fields.slug # ""
          /\ Has(arg'.request.body.fields, "secret")
          /\ arg'.request.body.fields.secret = ExpectedSecret(arg'.env)
          /\ HasPreviewableType(arg'.request.body.fields)
     /\ (op' = "POST" /\ ret'.status \in {400, 401}) => cookies' = cookies]_vars

\* a POST with the wrong secret has been rejected while preview mode is on
C25_Witness ==
  /\ pc = "done" /\ op = "POST" /\ ret.status = 401
  /\ Has(cookies, "preview") /\ cookies["preview"] = "true"
  /\ Has(cookies, "preview-meta")

\* C26: a GET after an accepted POST, with no DELETE since, reports active
\* with metadata that holds the content type and the slug that were
\* activated; a GET after a DELETE, or with no accepted POST before it,
\* reports not active and metadata null; metadata is not null only when
\* active is true.
C26_Lifecycle ==
  (pc = "done" /\ op = "GET") =>
    /\ activation # Null =>
         /\ ret.json.active
         /\ ret.json.metadata # Null
         /\ ret.json.metadata.contentType = activation.contentType
         /\ ret.json.metadata.slug = activation.slug
    /\ activation = Null => ~ret.json.active /\ ret.json.metadata = Null
    /\ ret.json.metadata # Null => ret.json.active

C26_Witness ==
  /\ pc = "done" /\ op = "GET"
  /\ activation = [contentType |-> "guide", slug |-> "a\"b"]
  /\ ret.json.active
  /\ ret.json.metadata.slug = "a\"b"

\* the status the order of checks of C27 gives a POST
StatusByOrderOfChecks(request, env) ==
  LET fields == request.body.fields
  IN  IF ~HasSupportedContentType(request) THEN 400
      ELSE IF ~Has(fields, "secret") \/ fields.secret = "" THEN 400
      ELSE IF ~Has(fields, "slug") \/ fields.slug = "" THEN 400
      ELSE IF fields.secret # ExpectedSecret(env) THEN 401
      ELSE IF ~HasPreviewableType(fields) THEN 400
      ELSE IF Has(request.headers, "accept") /\ Includes(request.headers["accept"], "application/json")
      THEN 200 ELSE 302

\* C27, as stated: the checks of POST run in the order content type, secret
\* present, slug present, secret right, content type of the content, and the
\* first that fails decides the status (400, 400, 400, 401, 400); a request
\* that passes all is answered 200 if the client accepts JSON and else
\* redirected with 302 to /preview/{type}/{slug}.
C27_ChecksInOrder ==
  (pc = "done" /\ op = "POST") =>
    /\ ret.status = StatusByOrderOfChecks(arg.request, arg.env)
    /\ ret.status = 302 =>
         ret.headers["Location"] = "/preview/" \o ActivationOf(arg.request).contentType
                                   \o "/" \o arg.request.body.fields.slug

(***************************************************************************)
(* Claims about validateAndFormatSlug.                                     *)
(***************************************************************************)

\* C28: validateAndFormatSlug throws, or it returns a string that matches
\* ^[a-z0-9]+(-[a-z0-9]+)*$ and has between 3 and 100 characters, and which
\* it returns unchanged when it is given it; it never throws the Invalid slug
\* format error.
C28_SlugIsCanonical ==
  Returned("validateAndFormatSlug") =>
    IF ret.threw THEN ~StartsWith(ret.value, "Invalid slug format")
    ELSE /\ Len(ret.value) >= 3 /\ Len(ret.value) <= 100
         /\ \A i \in 1..Len(ret.value) :
              \/ IsLowerAlnum(CharAt(ret.value, i))
              \/ /\ CharAt(ret.value, i) = "-"
                 /\ i > 1 /\ IsLowerAlnum(CharAt(ret.value, i - 1))
                 /\ i < Len(ret.value) /\ IsLowerAlnum(CharAt(ret.value, i + 1))
         /\ validateAndFormatSlug(ret.value) = [threw |-> FALSE, value |-> ret.value]

\* a slug of 101 characters is cut at a hyphen, which is dropped
C28_Witness ==
  /\ Returned("validateAndFormatSlug")
  /\ arg.slug = Repeat("a", 99) \o "_B"
  /\ ~ret.threw
  /\ ret.value = Repeat("a", 99)

(***************************************************************************)
(* Further claims about the sitemap page routines.                         *)
(***************************************************************************)

\* the urls the <url> elements of the document stand for
ListedUrls(body) ==
  LET urls == Elements(body, "url")
  IN  {XmlUnescape(Elements(urls[i], "loc")[1]) : i \in 1..Len(urls)}

\* C29, as stated: for every base url and every category list, the answer of
\* the pages sitemap, full or fallback, has a <url> whose <loc> is
\* formatUrl('/', baseUrl); and no full sitemap of pages, blog or guides lists
\* a url that isSitemapEligible rejects.
C29_HomepageAlwaysListed ==
  Answered =>
    /\ op = "GET sitemap-pages.xml" =>
         formatSitemapUrl("/", getSitemapBaseUrl(arg.env)) \in ListedUrls(ret.body)
    /\ ret.headers.CacheControl = "public, max-age=3600" =>
         \A url \in ListedUrls(ret.body) : shouldIncludeInSitemap(url)

(***************************************************************************)
(* Claims about the mock content service.                                  *)
(***************************************************************************)

\* the records are in the order newest first
IsNewestFirst(records) ==
  \A i \in 1..(Len(records) - 1) :
    ~IsLater(records[i + 1].publishedAt, records[i].publishedAt)

\* the lesser of the limit and the length of the array
MinOfLimit(limit, total) == IF limit < total THEN limit ELSE total

\* C30, as stated: after any calls of the mock service, in any interleaving,
\* the exported arrays hold the elements they held when the module was
\* loaded, in the same order; getBlogPosts(limit) and getGuides(limit) return
\* min(limit, total) records, newest first, and getFaqEntries returns the
\* entries by ascending order.
C30_DatasetUnchanged ==
  /\ mocks = MockDataset
  /\ \A caller \in Callers :
       pc[caller] = "done" =>
         /\ op[caller] = "getBlogPosts" =>
              /\ Len(ret[caller]) = MinOfLimit(LimitOf(arg.calls[caller]), Len(mockBlogPosts))
              /\ IsNewestFirst(ret[caller])
         /\ op[caller] = "getGuides" =>
              /\ Len(ret[caller]) = MinOfLimit(LimitOf(arg.calls[caller]), Len(mockGuides))
              /\ IsNewestFirst(ret[caller])
         /\ op[caller] = "getFaqEntries" =>
              /\ Len(ret[caller]) = Len(mockFaqEntries)
              /\ \A i \in 1..(Len(ret[caller]) - 1) :
                   ret[caller][i].order <= ret[caller][i + 1].order

====
